---- MODULE Spec2Model ----
(***************************************************************************)
(* Offsetting of polygons along an annotated Voronoi diagram               *)
(* (src/libslic3r/VoronoiOffset.cpp).                                      *)
(*                                                                         *)
(* A behaviour is one invocation: the caller passes a Voronoi diagram of   *)
(* a closed contour together with the contour's lines, and the code runs   *)
(* annotate_inside_outside, signed_vertex_distances,                       *)
(* edge_offset_contour_intersections and the tracing loop of offset, one   *)
(* loop iteration per step.  Coordinates and distances are integers: what  *)
(* the code computes in doubles is rounded to the nearest integer, and the *)
(* diagrams are chosen so that their vertices and the distances of their   *)
(* vertices are integers wherever the solver and the tracer run.           *)
(***************************************************************************)
EXTENDS Integers, Sequences, FiniteSets, TLC

VARIABLES
    input,            \* the arguments of the invocation and the build that runs it
    vd,               \* the Voronoi diagram the invocation is given
    calls,            \* how many times the caller has made the invocation on this diagram
    other,            \* a second invocation of offset running on the same diagram, if any
    pc,               \* the loop the invocation is in, or how it ended
    idx,              \* position of the running loop in vd.edges()
    vertex_category,  \* the color of every Voronoi vertex
    edge_category,    \* the color of every half-edge
    cell_category,    \* the color of every cell
    cell_queue,       \* the stack of cells of the seed fill
    vertex_distances, \* the signed distance of every vertex, <<>> before it is computed
    edge_points,      \* per half-edge, what the solver stored and the tracer consumed
    trace,            \* start_edge, edge, last_pt and poly of the trace under way, or <<>>
    polygons,         \* the polygons traced so far
    intersections     \* what an equal distance function called on its own returned

\* What the steps of an invocation leave alone.
invocation == <<input, vd, calls, other, intersections>>

vars == <<input, vd, calls, other, pc, idx, vertex_category, edge_category, cell_category,
          cell_queue, vertex_distances, edge_points, trace, polygons, intersections>>

(***************************************************************************)
(* The Voronoi diagrams.  Half-edges, vertices and cells are numbered from *)
(* 1 in the order of vd.edges(), vd.vertices() and vd.cells(); 0 is the    *)
(* null pointer.  Twin half-edges are stored next to each other.  A line   *)
(* is <<a.x, a.y, b.x, b.y>>.  Contours are counter-clockwise.             *)
(***************************************************************************)
Square ==
    [ lines |-> <<<<0, 0, 100, 0>>, <<100, 0, 100, 100>>, <<100, 100, 0, 100>>, <<0, 100, 0, 0>>>>,
      vertices |-> <<<<50, 50>>, <<100, 0>>, <<0, 0>>, <<100, 100>>, <<0, 100>>>>,
      vertex0 |-> <<1, 2, 3, 1, 3, 0, 2, 0, 1, 4, 2, 0, 4, 0, 1, 5, 4, 0, 5, 0, 3, 0, 5, 0>>,
      cell |-> <<2, 1, 4, 1, 1, 5, 6, 1, 3, 2, 2, 6, 7, 2, 4, 3, 3, 7, 8, 3, 5, 4, 4, 8>>,
      next |-> <<11, 4, 15, 5, 8, 21, 12, 2, 17, 1, 14, 7, 18, 10, 23, 9, 20, 13, 24, 16, 6, 3, 22, 19>>,
      prev |-> <<10, 8, 22, 2, 4, 21, 12, 5, 16, 14, 1, 7, 18, 11, 3, 20, 9, 13, 24, 17, 6, 23, 15, 19>>,
      secondary |-> <<FALSE, FALSE, FALSE, FALSE, TRUE, TRUE, TRUE, TRUE, FALSE, FALSE, TRUE, TRUE, TRUE,
              TRUE, FALSE, FALSE, TRUE, TRUE, TRUE, TRUE, TRUE, TRUE, TRUE, TRUE>>,
      category |-> <<"SEGMENT", "SEGMENT", "SEGMENT", "SEGMENT", "START", "END", "START", "END">>,
      source |-> <<1, 2, 3, 4, 1, 1, 3, 3>>,
      cell_incident_edge |-> <<2, 1, 9, 3, 6, 7, 13, 19>>,
      vertex_incident_edge |-> <<1, 2, 3, 10, 16>> ]

LShape ==
    [ lines |-> <<<<0, 0, 52, 0>>, <<52, 0, 52, 36>>, <<52, 36, 32, 36>>, <<32, 36, 32, 76>>, <<32, 76,
              0, 76>>, <<0, 76, 0, 0>>>>,
      vertices |-> <<<<34, 18>>, <<52, 0>>, <<32, 18>>, <<0, 0>>, <<20, 20>>, <<52, 36>>, <<52, 56>>,
              <<32, 36>>, <<16, 60>>, <<32, 76>>, <<16, 36>>, <<82, 76>>, <<0, 76>>>>,
      vertex0 |-> <<1, 2, 4, 5, 4, 0, 2, 0, 1, 6, 2, 0, 6, 0, 7, 8, 7, 6, 8, 3, 9, 10, 8, 11, 12, 10, 9,
              13, 10, 0, 13, 0, 4, 0, 13, 0, 11, 9, 11, 5, 3, 1, 5, 3, 7, 12, 12, 0>>,
      cell |-> <<2, 1, 6, 1, 1, 7, 8, 1, 3, 2, 2, 8, 9, 2, 3, 4, 9, 3, 3, 10, 5, 4, 10, 4, 4, 11, 6, 5,
              5, 11, 12, 5, 7, 6, 6, 12, 6, 4, 10, 6, 3, 1, 10, 1, 4, 9, 11, 9>>,
      next |-> <<11, 42, 40, 5, 8, 33, 12, 2, 18, 1, 14, 7, 48, 10, 19, 45, 13, 15, 41, 23, 29, 38, 39,
              16, 22, 47, 35, 21, 32, 26, 36, 28, 6, 3, 34, 31, 27, 24, 43, 37, 9, 44, 20, 4, 25,
              17, 30, 46>>,
      prev |-> <<10, 8, 34, 44, 4, 33, 12, 5, 41, 14, 1, 7, 17, 11, 18, 24, 46, 9, 15, 43, 28, 25, 20,
              38, 45, 30, 37, 32, 21, 47, 36, 29, 6, 35, 27, 31, 40, 22, 23, 3, 19, 2, 39, 42, 16,
              48, 26, 13>>,
      secondary |-> <<FALSE, FALSE, FALSE, FALSE, TRUE, TRUE, TRUE, TRUE, FALSE, FALSE, TRUE, TRUE, TRUE,
              TRUE, FALSE, FALSE, TRUE, TRUE, TRUE, TRUE, FALSE, FALSE, TRUE, TRUE, TRUE, TRUE,
              FALSE, FALSE, TRUE, TRUE, TRUE, TRUE, TRUE, TRUE, TRUE, TRUE, FALSE, FALSE, FALSE,
              FALSE, FALSE, FALSE, FALSE, FALSE, FALSE, FALSE, FALSE, FALSE>>,
      category |-> <<"SEGMENT", "SEGMENT", "SEGMENT", "SEGMENT", "SEGMENT", "SEGMENT", "START", "END",
              "START", "END", "START", "END">>,
      source |-> <<1, 2, 3, 4, 5, 6, 1, 1, 3, 3, 5, 5>>,
      cell_incident_edge |-> <<2, 1, 9, 16, 21, 3, 6, 7, 13, 20, 26, 31>>,
      vertex_incident_edge |-> <<1, 2, 20, 3, 4, 10, 15, 16, 21, 22, 24, 25, 28>> ]

Crown ==
    [ lines |-> <<<<20, 200, 60, 320>>, <<60, 320, 100, 240>>, <<100, 240, 140, 320>>, <<140, 320, 180,
              200>>, <<180, 200, 100, 460>>, <<100, 460, 20, 200>>>>,
      vertices |-> <<<<67, 223>>, <<60, 320>>, <<20, 200>>, <<59, 320>>, <<80, 180>>, <<100, 327>>,
              <<100, 240>>, <<70, 325>>, <<133, 223>>, <<140, 320>>, <<130, 325>>, <<141, 320>>,
              <<180, 200>>, <<120, 180>>, <<100, 460>>, <<100, 140>>>>,
      vertex0 |-> <<1, 2, 3, 4, 5, 3, 2, 4, 6, 7, 2, 8, 1, 7, 9, 10, 9, 7, 10, 11, 12, 13, 10, 12, 14,
              13, 6, 15, 13, 0, 15, 0, 3, 0, 15, 0, 12, 11, 8, 4, 8, 6, 6, 11, 5, 1, 9, 14, 16, 5,
              16, 14, 16, 0>>,
      cell |-> <<1, 2, 6, 1, 7, 1, 1, 8, 3, 2, 8, 2, 2, 9, 3, 4, 9, 3, 3, 10, 5, 4, 10, 4, 4, 11, 6, 5,
              5, 11, 12, 5, 7, 6, 6, 12, 10, 5, 8, 6, 6, 2, 5, 3, 1, 9, 4, 9, 7, 9, 9, 11, 11, 7>>,
      next |-> <<7, 13, 40, 6, 33, 45, 4, 11, 18, 42, 39, 2, 10, 46, 19, 47, 14, 15, 44, 23, 29, 24, 37,
              16, 22, 52, 35, 43, 32, 26, 36, 28, 54, 3, 34, 31, 20, 21, 8, 41, 27, 12, 38, 9, 1,
              50, 25, 17, 5, 51, 48, 53, 30, 49>>,
      prev |-> <<45, 12, 34, 7, 49, 4, 1, 39, 44, 13, 8, 42, 2, 17, 18, 24, 48, 9, 15, 37, 38, 25, 20,
              22, 47, 30, 41, 32, 21, 53, 36, 29, 5, 35, 27, 31, 23, 43, 11, 3, 40, 10, 28, 19, 6,
              14, 16, 51, 54, 46, 50, 26, 52, 33>>,
      secondary |-> <<FALSE, FALSE, FALSE, FALSE, TRUE, TRUE, TRUE, TRUE, FALSE, FALSE, TRUE, TRUE, TRUE,
              TRUE, FALSE, FALSE, TRUE, TRUE, TRUE, TRUE, FALSE, FALSE, TRUE, TRUE, TRUE, TRUE,
              FALSE, FALSE, TRUE, TRUE, TRUE, TRUE, TRUE, TRUE, TRUE, TRUE, FALSE, FALSE, FALSE,
              FALSE, FALSE, FALSE, FALSE, FALSE, FALSE, FALSE, FALSE, FALSE, FALSE, FALSE, FALSE,
              FALSE, FALSE, FALSE>>,
      category |-> <<"SEGMENT", "SEGMENT", "SEGMENT", "SEGMENT", "SEGMENT", "SEGMENT", "START", "END",
              "START", "END", "START", "END">>,
      source |-> <<1, 2, 3, 4, 5, 6, 1, 1, 3, 3, 5, 5>>,
      cell_incident_edge |-> <<1, 2, 9, 16, 21, 3, 5, 8, 14, 20, 26, 31>>,
      vertex_incident_edge |-> <<1, 2, 3, 4, 5, 9, 10, 12, 15, 16, 20, 21, 22, 25, 28, 49>> ]

Star ==
    [ lines |-> <<<<2000, 2600, 1952, 2064>>, <<1952, 2064, 1480, 2300>>, <<1480, 2300, 1880, 1986>>,
              <<1880, 1986, 1480, 1700>>, <<1480, 1700, 1968, 1926>>, <<1968, 1926, 2000, 1400>>,
              <<2000, 1400, 2072, 1904>>, <<2072, 1904, 2520, 1700>>, <<2520, 1700, 2080, 2010>>,
              <<2080, 2010, 2520, 2300>>, <<2520, 2300, 2046, 2110>>, <<2046, 2110, 2000, 2600>>>>,
      vertices |-> <<<<1641, 2622>>, <<1952, 2064>>, <<2000, 2600>>, <<2001, 2106>>, <<1635, 2633>>,
              <<2013, 2059>>, <<1912, 2027>>, <<1480, 2300>>, <<1927, 2015>>, <<1266, 2000>>,
              <<1880, 1986>>, <<1244, 2000>>, <<1907, 1948>>, <<1480, 1700>>, <<1641, 1378>>,
              <<1968, 1926>>, <<1942, 1982>>, <<1634, 1367>>, <<2021, 1911>>, <<2000, 1400>>,
              <<2023, 1929>>, <<2367, 1365>>, <<2072, 1904>>, <<2378, 1346>>, <<2091, 1946>>,
              <<2520, 1700>>, <<2718, 2000>>, <<2080, 2010>>, <<2044, 1959>>, <<2731, 2000>>,
              <<2065, 2062>>, <<2520, 2300>>, <<2050, 2056>>, <<2366, 2634>>, <<2046, 2110>>,
              <<2378, 2654>>, <<1950, 1994>>, <<2000, 2000>>, <<2019, 2045>>, <<2030, 1961>>>>,
      vertex0 |-> <<1, 2, 3, 4, 5, 3, 2, 6, 7, 8, 2, 9, 1, 8, 10, 11, 12, 8, 11, 7, 13, 14, 11, 13, 10,
              14, 15, 16, 18, 14, 16, 17, 19, 20, 16, 21, 15, 20, 22, 23, 24, 20, 23, 19, 25, 26,
              23, 25, 22, 26, 27, 28, 30, 26, 28, 29, 31, 32, 28, 33, 27, 32, 34, 35, 36, 32, 35,
              31, 34, 3, 35, 4, 4, 6, 25, 29, 13, 17, 9, 7, 33, 31, 21, 19, 33, 39, 21, 40, 9, 37,
              39, 6, 29, 40, 17, 37, 38, 39, 37, 38, 40, 38, 30, 27, 5, 1, 18, 15, 5, 0, 30, 0, 18,
              0, 36, 34, 12, 10, 24, 22, 12, 0, 24, 0, 36, 0>>,
      cell |-> <<1, 2, 12, 1, 13, 1, 1, 14, 3, 2, 14, 2, 2, 15, 3, 4, 15, 3, 3, 16, 5, 4, 16, 4, 4, 17,
              5, 6, 17, 5, 5, 18, 7, 6, 18, 6, 6, 19, 7, 8, 19, 7, 7, 20, 9, 8, 20, 8, 8, 21, 9,
              10, 21, 9, 9, 22, 11, 10, 22, 10, 10, 23, 11, 12, 23, 11, 11, 24, 12, 13, 24, 12, 24,
              1, 20, 9, 16, 5, 16, 2, 24, 10, 20, 6, 22, 24, 18, 20, 14, 16, 14, 24, 20, 22, 16,
              18, 14, 22, 14, 18, 18, 22, 9, 23, 1, 15, 5, 19, 15, 13, 23, 21, 19, 17, 11, 13, 3,
              17, 7, 21, 17, 15, 21, 19, 13, 23>>,
      next |-> <<7, 13, 72, 6, 70, 105, 74, 11, 18, 80, 89, 2, 10, 106, 19, 25, 14, 117, 9, 23, 30, 24,
              77, 16, 22, 118, 31, 37, 26, 107, 78, 35, 42, 84, 87, 28, 34, 108, 43, 49, 38, 119,
              33, 47, 54, 48, 75, 40, 46, 120, 55, 61, 50, 103, 76, 59, 66, 82, 85, 52, 58, 104,
              67, 69, 62, 115, 57, 71, 3, 116, 73, 64, 92, 4, 93, 45, 95, 21, 20, 12, 68, 60, 44,
              36, 98, 81, 101, 83, 99, 79, 8, 86, 88, 56, 90, 32, 91, 102, 97, 96, 100, 94, 51,
              111, 1, 109, 27, 113, 122, 5, 126, 53, 124, 29, 63, 125, 15, 121, 39, 123, 114, 17,
              112, 41, 110, 65>>,
      prev |-> <<105, 12, 69, 74, 110, 4, 1, 91, 19, 13, 8, 80, 2, 17, 117, 24, 122, 9, 15, 79, 78, 25,
              20, 22, 16, 29, 107, 36, 114, 21, 27, 96, 43, 37, 32, 84, 28, 41, 119, 48, 124, 33,
              39, 83, 76, 49, 44, 46, 40, 53, 103, 60, 112, 45, 51, 94, 67, 61, 56, 82, 52, 65,
              115, 72, 126, 57, 63, 81, 64, 5, 68, 3, 71, 7, 47, 55, 23, 31, 90, 10, 86, 58, 88,
              34, 59, 92, 35, 93, 11, 95, 97, 73, 75, 102, 77, 100, 99, 85, 89, 101, 87, 98, 54,
              62, 6, 14, 30, 38, 106, 125, 104, 123, 108, 121, 66, 70, 18, 26, 42, 50, 118, 109,
              120, 113, 116, 111>>,
      secondary |-> <<FALSE, FALSE, FALSE, FALSE, TRUE, TRUE, TRUE, TRUE, FALSE, FALSE, TRUE, TRUE, TRUE,
              TRUE, FALSE, FALSE, TRUE, TRUE, TRUE, TRUE, FALSE, FALSE, TRUE, TRUE, TRUE, TRUE,
              FALSE, FALSE, TRUE, TRUE, TRUE, TRUE, FALSE, FALSE, TRUE, TRUE, TRUE, TRUE, FALSE,
              FALSE, TRUE, TRUE, TRUE, TRUE, FALSE, FALSE, TRUE, TRUE, TRUE, TRUE, FALSE, FALSE,
              TRUE, TRUE, TRUE, TRUE, FALSE, FALSE, TRUE, TRUE, TRUE, TRUE, FALSE, FALSE, TRUE,
              TRUE, TRUE, TRUE, TRUE, TRUE, TRUE, TRUE, FALSE, FALSE, FALSE, FALSE, FALSE, FALSE,
              FALSE, FALSE, FALSE, FALSE, FALSE, FALSE, FALSE, FALSE, FALSE, FALSE, FALSE, FALSE,
              FALSE, FALSE, FALSE, FALSE, FALSE, FALSE, FALSE, FALSE, FALSE, FALSE, FALSE, FALSE,
              FALSE, FALSE, FALSE, FALSE, FALSE, FALSE, FALSE, FALSE, FALSE, FALSE, FALSE, FALSE,
              FALSE, FALSE, FALSE, FALSE, FALSE, FALSE, FALSE, FALSE, FALSE, FALSE, FALSE, FALSE>>,
      category |-> <<"SEGMENT", "SEGMENT", "SEGMENT", "SEGMENT", "SEGMENT", "SEGMENT", "SEGMENT",
              "SEGMENT", "SEGMENT", "SEGMENT", "SEGMENT", "SEGMENT", "START", "END", "START",
              "END", "START", "END", "START", "END", "START", "END", "START", "END">>,
      source |-> <<1, 2, 3, 4, 5, 6, 7, 8, 9, 10, 11, 12, 1, 1, 3, 3, 5, 5, 7, 7, 9, 9, 11, 11>>,
      cell_incident_edge |-> <<1, 2, 9, 16, 21, 28, 33, 40, 45, 52, 57, 3, 5, 8, 14, 20, 26, 32, 38, 44,
              50, 56, 62, 68>>,
      vertex_incident_edge |-> <<1, 2, 3, 4, 5, 8, 9, 10, 12, 15, 16, 17, 21, 22, 27, 28, 32, 29, 33, 34,
              36, 39, 40, 41, 45, 46, 51, 52, 56, 53, 57, 58, 60, 63, 64, 65, 90, 97, 86, 88>> ]

\* A right trapezoid with corners (0,0), (80,0), (80,30), (0,90): its inner vertices (60,20)
\* and (30,30) have the clearances 20 and 30.
Trapezoid ==
    [ lines |-> <<<<0, 0, 80, 0>>, <<80, 0, 80, 30>>, <<80, 30, 0, 90>>, <<0, 90, 0, 0>>>>,
      vertices |-> <<<<60, 20>>, <<80, 0>>, <<30, 30>>, <<0, 0>>, <<80, 30>>, <<0, 90>>>>,
      vertex0 |-> <<1, 2, 4, 3, 4, 0, 2, 0, 1, 5, 2, 0, 5, 0, 3, 6, 5, 0, 6, 0, 4, 0, 6, 0, 3, 1>>,
      cell |-> <<2, 1, 4, 1, 1, 5, 6, 1, 3, 2, 2, 6, 7, 2, 4, 3, 3, 7, 8, 3, 5, 4, 4, 8, 3, 1>>,
      next |-> <<11, 26, 15, 5, 8, 21, 12, 2, 17, 1, 14, 7, 18, 10, 23, 25, 20, 13, 24, 16, 6, 3, 22, 19,
              9, 4>>,
      prev |-> <<10, 8, 22, 26, 4, 21, 12, 5, 25, 14, 1, 7, 18, 11, 3, 20, 9, 13, 24, 17, 6, 23, 15, 19,
              16, 2>>,
      secondary |-> <<FALSE, FALSE, FALSE, FALSE, TRUE, TRUE, TRUE, TRUE, FALSE, FALSE, TRUE, TRUE, TRUE,
              TRUE, FALSE, FALSE, TRUE, TRUE, TRUE, TRUE, TRUE, TRUE, TRUE, TRUE, FALSE, FALSE>>,
      category |-> <<"SEGMENT", "SEGMENT", "SEGMENT", "SEGMENT", "START", "END", "START", "END">>,
      source |-> <<1, 2, 3, 4, 1, 1, 3, 3>>,
      cell_incident_edge |-> <<2, 1, 9, 3, 6, 7, 13, 19>>,
      vertex_incident_edge |-> <<1, 2, 4, 3, 10, 16>> ]

\* An hourglass: two reflex corners two units apart face each other, and the edge between
\* their point sites runs from (91,17) to (91,28), through the neck.  The vertices off the
\* neck with fractional coordinates are rounded to whole ones.
Neck ==
    [ lines |-> <<<<30, 10, 152, 10>>, <<152, 10, 92, 22>>, <<92, 22, 176, 36>>, <<176, 36, 6, 36>>, <<6,
              36, 90, 22>>, <<90, 22, 30, 10>>>>,
      vertices |-> <<<<91, 16>>, <<152, 10>>, <<30, 10>>, <<154, 21>>, <<92, 22>>, <<91, 17>>, <<91,
              29>>, <<176, 36>>, <<91, 28>>, <<181, 8>>, <<6, 36>>, <<28, 21>>, <<90, 22>>, <<1,
              8>>>>,
      vertex0 |-> <<1, 2, 3, 1, 3, 0, 2, 0, 4, 5, 4, 2, 5, 6, 7, 8, 5, 9, 10, 8, 7, 11, 8, 0, 11, 0, 12,
              13, 14, 11, 13, 9, 12, 3, 13, 6, 1, 6, 9, 6, 9, 7, 4, 10, 14, 12, 14, 0, 10, 0>>,
      cell |-> <<2, 1, 6, 1, 1, 7, 8, 1, 2, 3, 8, 2, 2, 9, 4, 3, 9, 3, 3, 10, 5, 4, 4, 10, 11, 4, 5, 6,
              11, 5, 5, 12, 6, 7, 12, 6, 6, 2, 9, 12, 5, 3, 3, 8, 5, 7, 7, 11, 10, 8>>,
      next |-> <<12, 4, 37, 5, 8, 34, 50, 2, 13, 43, 7, 9, 38, 17, 23, 42, 39, 10, 16, 49, 30, 15, 26,
              20, 48, 22, 31, 33, 25, 45, 41, 35, 3, 46, 40, 28, 36, 1, 14, 32, 21, 18, 19, 11, 27,
              47, 6, 29, 24, 44>>,
      prev |-> <<38, 8, 33, 2, 4, 47, 11, 5, 12, 18, 44, 1, 9, 39, 22, 19, 14, 42, 43, 24, 41, 26, 15,
              49, 29, 23, 45, 36, 48, 21, 27, 40, 28, 6, 32, 37, 3, 13, 17, 35, 31, 16, 10, 50, 30,
              34, 46, 25, 20, 7>>,
      secondary |-> <<FALSE, FALSE, FALSE, FALSE, TRUE, TRUE, TRUE, TRUE, FALSE, FALSE, TRUE, TRUE, TRUE,
              TRUE, FALSE, FALSE, TRUE, TRUE, TRUE, TRUE, FALSE, FALSE, TRUE, TRUE, TRUE, TRUE,
              FALSE, FALSE, TRUE, TRUE, TRUE, TRUE, TRUE, TRUE, TRUE, TRUE, FALSE, FALSE, FALSE,
              FALSE, FALSE, FALSE, FALSE, FALSE, FALSE, FALSE, FALSE, FALSE, FALSE, FALSE>>,
      category |-> <<"SEGMENT", "SEGMENT", "SEGMENT", "SEGMENT", "SEGMENT", "SEGMENT", "START", "END",
              "START", "END", "START", "END">>,
      source |-> <<1, 2, 3, 4, 5, 6, 1, 1, 3, 3, 5, 5>>,
      cell_incident_edge |-> <<2, 1, 10, 15, 21, 3, 6, 7, 14, 20, 25, 32>>,
      vertex_incident_edge |-> <<1, 2, 3, 9, 10, 14, 15, 16, 18, 19, 22, 27, 28, 29>> ]

Diagrams ==
    [Square |-> Square, LShape |-> LShape, Crown |-> Crown, Star |-> Star, Trapezoid |-> Trapezoid,
     Neck |-> Neck]

\* Number of orders in which the half-edges of a diagram are stored.
NumOrders == 4

num_edges == Len(vd.vertex0)
num_vertices == Len(vd.vertices)
num_cells == Len(vd.category)

twin(e) == IF e % 2 = 1 THEN e + 1 ELSE e - 1
vertex0(e) == vd.vertex0[e]
vertex1(e) == vd.vertex0[twin(e)]
cell(e) == vd.cell[e]
next(e) == vd.next[e]
rot_next(e) == twin(vd.prev[e])
is_secondary(e) == vd.secondary[e]
contains_point(c) == vd.category[c] # "SEGMENT"
contains_segment(c) == vd.category[c] = "SEGMENT"
source_line(c) == vd.lines[vd.source[c]]
line_a(l) == <<l[1], l[2]>>
line_b(l) == <<l[3], l[4]>>
contour_point(c) == IF vd.category[c] = "START" THEN line_a(source_line(c)) ELSE line_b(source_line(c))
vertex_point(v) == vd.vertices[v]

\* The half-edge stored at position p of vd.edges(): twins stay adjacent in every order.
edge_at(p) ==
    LET n == num_edges
        r == ((p - 1 + 2 * ((input.order - 1) \div 4)) % n) + 1
        k == (input.order - 1) % 4
    IN CASE k = 0 -> r
         [] k = 1 -> twin(r)
         [] k = 2 -> IF r % 2 = 1 THEN n - r ELSE n - r + 2
         [] OTHER -> n + 1 - r

cross2(a, b) == a[1] * b[2] - a[2] * b[1]
dot(a, b) == a[1] * b[1] + a[2] * b[2]
minus(a, b) == <<a[1] - b[1], a[2] - b[2]>>
plus(a, b) == <<a[1] + b[1], a[2] + b[2]>>
squaredNorm(a) == dot(a, a)

\* coord_t(x + 0.5) of a double holding an integer: the cast truncates towards zero.
coord_round(x) == IF x >= 0 THEN x ELSE x + 1

Annotations ==
    [vc |-> vertex_category, ec |-> edge_category, cc |-> cell_category, q |-> cell_queue, ok |-> TRUE]

check(a, cond) == [a EXCEPT !.ok = a.ok /\ cond]

annotate_vertex(a, vertex, new_vertex_category) ==
    [a EXCEPT !.vc[vertex] = new_vertex_category,
              !.ok = a.ok /\ a.vc[vertex] \in {"Unknown", new_vertex_category}]

annotate_edge(a, edge, new_edge_category) ==
    [a EXCEPT !.ec[edge] = new_edge_category,
              !.ok = a.ok /\ a.ec[edge] \in {"Unknown", new_edge_category}]

\* Lines 390-414 without the switch at lines 394-408: the new category is written as given.
annotate_cell_overwrite(a, c, new_cell_category) == [a EXCEPT !.cc[c] = new_cell_category]

annotate_cell(a, c, new_cell_category) ==
    LET cc == a.cc[c]
        new == CASE cc = "Outside" /\ new_cell_category = "Inside" -> "Boundary"
                 [] cc = "Inside" /\ new_cell_category = "Outside" -> "Boundary"
                 [] OTHER -> new_cell_category
    IN IF cc = "Boundary" THEN a ELSE [a EXCEPT !.cc[c] = new]

\* Lines 390-414: what annotate_cell returns, true if it modified the category of the cell.
annotate_cell_modified(a, c, new_cell_category) ==
    LET cc == a.cc[c]
        new == CASE cc = "Outside" /\ new_cell_category = "Inside" -> "Boundary"
                 [] cc = "Inside" /\ new_cell_category = "Outside" -> "Boundary"
                 [] OTHER -> new_cell_category
    IN IF cc = "Boundary" THEN FALSE ELSE cc # new

\* Lines 417-440: a half-edge running to infinity.
annotate_infinite_edge(a, edge) ==
    LET a1 == annotate_edge(a, edge, "PointsOutside")
        a2 == annotate_edge(a1, twin(edge), "PointsToContour")
        a3 == annotate_vertex(a2, vertex0(edge), "OnContour")
        swap == contains_segment(cell(edge))
        c1 == IF swap THEN cell(twin(edge)) ELSE cell(edge)
        c2 == IF swap THEN cell(edge) ELSE cell(twin(edge))
    IN IF is_secondary(edge)
       THEN check(annotate_cell(annotate_cell(a3, c1, "Outside"), c2, "Boundary"),
                  contains_point(c1) /\ contains_segment(c2))
       ELSE a3

\* Lines 441-524: a finite half-edge next to a segment cell.
annotate_finite_edge(a, edge) ==
    LET c1 == IF contains_segment(cell(edge)) THEN cell(edge) ELSE cell(twin(edge))
        c2 == IF c1 = cell(edge) THEN cell(twin(edge)) ELSE cell(edge)
        line == source_line(c1)
        line2 == source_line(c2)
        v0 == vertex0(edge)
        v1 == vertex1(edge)
        pt_on_contour ==
            IF c1 = cell(edge) /\ contains_segment(cell(twin(edge)))
            THEN IF line_a(line) = line_b(line2) THEN <<line_a(line)>>
                 ELSE IF line_b(line) = line_a(line2) THEN <<line_b(line)>>
                 ELSE <<>>
            ELSE IF is_secondary(edge) THEN <<contour_point(c2)>> ELSE <<>>
        on(v) == /\ coord_round(vertex_point(v)[1]) = pt_on_contour[1][1]
                 /\ coord_round(vertex_point(v)[2]) = pt_on_contour[1][2]
        v1_on_contour ==
            /\ pt_on_contour # <<>>
            /\ IF on(v0)
               THEN /\ on(v1)
                    /\ squaredNorm(minus(vertex_point(v0), pt_on_contour[1]))
                         > squaredNorm(minus(vertex_point(v1), pt_on_contour[1]))
               ELSE TRUE
        located == pt_on_contour = <<>> \/ (on(v0) # on(v1))
        side == cross2(minus(vertex_point(v1), line_a(line)), minus(line_b(line), line_a(line)))
        vc == IF side > 0 THEN "Outside" ELSE "Inside"
        cc == IF side > 0 THEN "Outside" ELSE "Inside"
        a1 == annotate_vertex(check(a, located /\ side # 0), v1, vc)
        a2 == annotate_edge(a1, edge, IF vc = "Outside" THEN "PointsOutside" ELSE "PointsInside")
        a3 == IF pt_on_contour # <<>>
              THEN annotate_edge(annotate_vertex(a2, v0, "OnContour"), twin(edge), "PointsToContour")
              ELSE a2
        a4 == annotate_cell(a3, c1, IF pt_on_contour # <<>> THEN "Boundary" ELSE cc)
        a5 == annotate_cell(a4, c2, IF pt_on_contour # <<>> /\ contains_segment(c2) THEN "Boundary" ELSE cc)
    IN IF ~contains_segment(c1) THEN a
       ELSE IF v1_on_contour
       THEN annotate_vertex(annotate_edge(check(a, located), edge, "PointsToContour"), v1, "OnContour")
       ELSE a5

\* The body of the loop at lines 416-524.
annotate_step(a, edge) ==
    IF vertex1(edge) = 0 THEN annotate_infinite_edge(a, edge)
    ELSE IF vertex0(edge) # 0 THEN annotate_finite_edge(a, edge)
    ELSE a

\* The body of the loop at lines 530-561: one round of expansion over the unmarked half-edges.
propagate_step(a, edge) ==
    LET c1 == cell(edge)
        c2 == cell(twin(edge))
        vc == a.vc[vertex0(edge)]
        ec_new == IF vc = "Outside" THEN "PointsOutside" ELSE "PointsInside"
        cc_new == IF vc = "Outside" THEN "Outside" ELSE "Inside"
        cc == a.cc[c1]
        cc2 == a.cc[c2]
        a0 == check(a, (a.ec[edge] = "Unknown") = (a.ec[twin(edge)] = "Unknown"))
        a1 == annotate_vertex(check(a0, vc # "OnContour"), vertex1(edge), vc)
        a2 == annotate_edge(annotate_edge(a1, edge, ec_new), twin(edge), ec_new)
        a3 == check(a2, cc # "Boundary" /\ cc2 # "Boundary" /\ cc \in {"Unknown", cc_new})
        a4 == IF cc # cc_new
              THEN [annotate_cell(a3, c1, cc_new) EXCEPT !.q = Append(a3.q, c1)]
              ELSE a3
        a5 == IF cc2 # cc_new
              THEN [annotate_cell(a4, c2, cc_new) EXCEPT !.q = Append(a4.q, c2)]
              ELSE a4
    IN IF a.ec[edge] # "Unknown" THEN a0
       ELSE IF vertex0(edge) = 0 \/ vertex1(edge) = 0 THEN check(a0, FALSE)
       ELSE IF vc = "Unknown" THEN check(a0, contains_point(c1) /\ contains_point(c2))
       ELSE a5

\* Lines 572-593 with the test of line 581 left out of the push: the cell on the other side
\* of every half-edge of the popped cell is pushed.
fill_edge_pushing(a, edge, cc) ==
    LET ec_new == IF cc = "Outside" THEN "PointsOutside" ELSE "PointsInside"
        c2 == cell(twin(edge))
        a2 == annotate_edge(annotate_edge(a, edge, ec_new), twin(edge), ec_new)
    IN [annotate_cell(a2, c2, cc) EXCEPT !.q = Append(a2.q, c2)]

\* Lines 572-593 with line 577 left out: the twin of the half-edge keeps its category.
fill_edge_alone(a, edge, cc) ==
    LET ec_new == IF cc = "Outside" THEN "PointsOutside" ELSE "PointsInside"
        c2 == cell(twin(edge))
        a2 == annotate_edge(a, edge, ec_new)
    IN IF a.ec[edge] = "Unknown"
       THEN IF a.cc[c2] # cc
            THEN [annotate_cell(a2, c2, cc) EXCEPT !.q = Append(a2.q, c2)]
            ELSE a2
       ELSE a

\* The body of the do-while at lines 572-593 for one half-edge of the popped cell.
fill_edge(a, edge, cc) ==
    LET ec_new == IF cc = "Outside" THEN "PointsOutside" ELSE "PointsInside"
        c2 == cell(twin(edge))
        cc2 == a.cc[c2]
        a1 == check(a, contains_point(cell(edge)) /\ contains_point(c2))
        a2 == annotate_edge(annotate_edge(a1, edge, ec_new), twin(edge), ec_new)
        a3 == check(a2, cc2 \in {"Unknown", cc})
        known(v) == v = 0 \/ a.vc[v] # "Unknown"
    IN IF a.ec[edge] = "Unknown"
       THEN IF cc2 # cc
            THEN [annotate_cell(a3, c2, cc) EXCEPT !.q = Append(a3.q, c2)]
            ELSE a3
       ELSE check(a, /\ known(vertex0(edge)) /\ known(vertex1(edge))
                     /\ a.ec[twin(edge)] # "Unknown"
                     /\ a.cc[cell(edge)] # "Unknown" /\ a.cc[c2] # "Unknown")

RECURSIVE fill_cycle(_, _, _, _)
fill_cycle(a, edge, first_edge, cc) ==
    IF next(edge) = first_edge THEN fill_edge(a, edge, cc)
    ELSE CHOOSE r \in {fill_cycle(a1, next(edge), first_edge, cc) :
                           a1 \in {fill_edge(a, edge, cc)}} : TRUE

\* The cell at position k is taken from the queue and the cells behind it are dropped.
fill_step_dropping(a, k) ==
    LET c == a.q[k]
        cc == a.cc[c]
        a1 == [check(a, cc \in {"Outside", "Inside"}) EXCEPT !.q = SubSeq(a.q, 1, k - 1)]
    IN fill_cycle(a1, vd.cell_incident_edge[c], vd.cell_incident_edge[c], cc)

\* One iteration of the while loop at lines 564-594 with the cell taken from position k of
\* the queue: take the cell out and walk its half-edges.
fill_step_at(a, k) ==
    LET c == a.q[k]
        cc == a.cc[c]
        a1 == [check(a, cc \in {"Outside", "Inside"})
                   EXCEPT !.q = SubSeq(a.q, 1, k - 1) \o SubSeq(a.q, k + 1, Len(a.q))]
    IN fill_cycle(a1, vd.cell_incident_edge[c], vd.cell_incident_edge[c], cc)

\* One iteration of the while loop at lines 564-594: cell_queue.back() and pop_back().
fill_step(a) == fill_step_at(a, Len(a.q))

\* The counters of verify_inside_outside_annotations, lines 240-245.
NoCounts ==
    [num_vertices_on_contour |-> 0, num_vertices_inside |-> 0, num_vertices_outside |-> 0,
     num_edges_point_to_contour |-> 0, num_edges_point_inside |-> 0, num_edges_point_outside |-> 0,
     ok |-> TRUE]

\* The assertions on the counters of a cell of category cc, lines 280-286, 290-295, 299-304
\* and 314-343.
counts_ok(n, c, cc) ==
    CASE cc = "Boundary" ->
            /\ contains_segment(c)
            /\ n.num_edges_point_to_contour = 2
            /\ n.num_vertices_on_contour = 2
            /\ n.num_vertices_inside > 0
            /\ n.num_vertices_outside > 0
            /\ n.num_edges_point_inside > 0
            /\ n.num_edges_point_outside > 0
      [] cc = "Inside" ->
            /\ n.num_vertices_on_contour <= 1
            /\ n.num_edges_point_to_contour <= 1
            /\ n.num_vertices_inside > 0
            /\ n.num_vertices_outside = 0
            /\ n.num_edges_point_inside > 0
            /\ n.num_edges_point_outside = 0
      [] cc = "Outside" ->
            /\ n.num_vertices_on_contour <= 1
            /\ n.num_edges_point_to_contour <= 1
            /\ n.num_vertices_inside = 0
            /\ n.num_vertices_outside > 0
            /\ n.num_edges_point_inside = 0
            /\ n.num_edges_point_outside > 0
      [] OTHER -> FALSE

\* The counters after one more half-edge of the cell, lines 247-272.
count_edge(n, edge) ==
    LET ec == edge_category[edge]
        vc == IF vertex1(edge) = 0 THEN "Outside" ELSE vertex_category[vertex1(edge)]
        n1 == CASE ec = "PointsInside" -> [n EXCEPT !.num_edges_point_inside = @ + 1]
                [] ec = "PointsOutside" -> [n EXCEPT !.num_edges_point_outside = @ + 1]
                [] ec = "PointsToContour" -> [n EXCEPT !.num_edges_point_to_contour = @ + 1]
                [] OTHER -> [n EXCEPT !.ok = FALSE]
    IN CASE vc = "Inside" -> [n1 EXCEPT !.num_vertices_inside = @ + 1]
         [] vc = "Outside" -> [n1 EXCEPT !.num_vertices_outside = @ + 1]
         [] vc = "OnContour" -> [n1 EXCEPT !.num_vertices_on_contour = @ + 1]
         [] OTHER -> [n1 EXCEPT !.ok = FALSE]

\* The counters of a cell once the do-while at lines 246-312 has walked the whole cycle.
RECURSIVE cell_counts(_, _, _)
cell_counts(n, edge, first_edge) ==
    LET n1 == count_edge(n, edge)
    IN IF next(edge) = first_edge THEN n1 ELSE cell_counts(n1, next(edge), first_edge)

\* The do-while at lines 246-312: its assertions are evaluated inside the loop, after
\* every half-edge, on the counters accumulated so far.
RECURSIVE verify_cycle(_, _, _, _)
verify_cycle(n, edge, first_edge, c) ==
    LET n1 == count_edge(n, edge)
        cc == cell_category[c]
        cc_other == cell_category[cell(twin(edge))]
        neighbour_ok ==
            CASE cc = "Boundary" -> cc_other # "Boundary" \/ contains_segment(cell(twin(edge)))
              [] cc = "Inside" -> cc_other \in {"Inside", "Boundary"}
              [] cc = "Outside" -> cc_other \in {"Outside", "Boundary"}
              [] OTHER -> FALSE
        n2 == [n1 EXCEPT !.ok = /\ n1.ok /\ cc_other # "Unknown" /\ neighbour_ok
                                 /\ counts_ok(n1, c, cc)]
    IN IF next(edge) = first_edge THEN n2 ELSE verify_cycle(n2, next(edge), first_edge, c)

verify_cell(c) ==
    LET n == verify_cycle(NoCounts, vd.cell_incident_edge[c], vd.cell_incident_edge[c], c)
    IN n.ok /\ counts_ok(n, c, cell_category[c])

\* debug::verify_inside_outside_annotations, lines 225-347.
verify_inside_outside_annotations ==
    /\ \A v \in 1..num_vertices : vertex_category[v] # "Unknown"
    /\ \A e \in 1..num_edges : edge_category[e] # "Unknown"
    /\ \A c \in 1..num_cells : cell_category[c] # "Unknown"
    /\ \A c \in 1..num_cells : verify_cell(c)

\* std::numeric_limits<double>::max(), the distance of the missing end of an infinite edge.
DBL_MAX == 1000000

Abs(x) == IF x < 0 THEN -x ELSE x
Max(x, y) == IF x > y THEN x ELSE y

\* Division of doubles, rounded to the nearest integer.
div(n, d) == IF d > 0 THEN (2 * n + d) \div (2 * d) ELSE (- 2 * n - d) \div (- 2 * d)

RECURSIVE sqrt_search(_, _, _)
sqrt_search(n, lo, hi) ==
    IF lo = hi THEN lo
    ELSE LET mid == (lo + hi + 1) \div 2
         IN IF mid * mid <= n THEN sqrt_search(n, mid, hi) ELSE sqrt_search(n, lo, mid - 1)

\* sqrt of a double, rounded to the nearest integer.
sqrt(n) ==
    LET r == sqrt_search(n, 0, IF n < 46340 THEN n ELSE 46340)
    IN IF n - r * r > r THEN r + 1 ELSE r

norm(a) == sqrt(squaredNorm(a))

\* Geometry::ray_point_distance: the distance of pt from the line through origin along dir.
ray_point_distance(origin, dir, pt) == div(Abs(cross2(minus(pt, origin), dir)), norm(dir))

\* The do-while at lines 615-621: the first point cell around the vertex, 0 if there is none.
RECURSIVE find_point_cell(_, _)
find_point_cell(edge, first_edge) ==
    IF contains_point(cell(edge)) THEN cell(edge)
    ELSE IF rot_next(edge) = first_edge THEN 0
    ELSE find_point_cell(rot_next(edge), first_edge)

\* The body of the loop at lines 606-635.
signed_vertex_distance(vertex) ==
    LET vc == vertex_category[vertex]
        first_edge == vd.vertex_incident_edge[vertex]
        point_cell == find_point_cell(first_edge, first_edge)
        line == source_line(cell(first_edge))
        dist == IF point_cell = 0
                THEN ray_point_distance(line_a(line), minus(line_b(line), line_a(line)),
                                        vertex_point(vertex))
                ELSE norm(minus(contour_point(point_cell), vertex_point(vertex)))
    IN IF vc = "OnContour" THEN 0 ELSE IF vc = "Inside" THEN -dist ELSE dist

\* An entry of the intersection array: x is NaN or a coordinate, y a coordinate or the mark.
Unclassified == [nan |-> TRUE, x |-> 0, y |-> 0]
edge_offset_has_intersection(p) == ~p.nan
mark_visited(p) == [p EXCEPT !.y = 1]
point(p) == [nan |-> FALSE, x |-> p[1], y |-> p[2]]

\* The parameter t of lines 755-756 as a fraction <<numerator, denominator>>, clamped to [0, 1].
clamp01(n, d) == IF n <= 0 THEN <<0, 1>> ELSE IF n >= d THEN <<1, 1>> ELSE <<n, d>>

\* Slic3r::lerp(a, b, t) for t = t[1] / t[2].
lerp(a, b, t) == <<a[1] + div((b[1] - a[1]) * t[1], t[2]), a[2] + div((b[2] - a[2]) * t[1], t[2])>>

\* Lines 20-54; the result is a fraction <<numerator, denominator>>.
first_circle_segment_intersection_parameter(center, r, pt, v) ==
    LET d == minus(pt, center)
        a == squaredNorm(v)
        b == 2 * dot(d, v)
        c == squaredNorm(d) - r * r
        u == b * b - 4 * a * c
        su == sqrt(u)
        t0 == - b - su
        t1 == - b + su
    IN IF u <= 0 THEN clamp01(- b, 2 * a)
       ELSE IF t1 < 0 THEN <<0, 1>>
       ELSE IF t0 > 2 * a THEN <<1, 1>>
       ELSE IF t0 > 0 THEN <<t0, 2 * a>> ELSE <<t1, 2 * a>>

\* Lines 83-90 without the test for the circles that touch.
cnt_two(discr) == 2

\* Lines 83-90: the number of points found when discr >= 0.
cnt(discr) == IF discr = 0 THEN 1 ELSE 2

\* Lines 63-111.
point_point_equal_distance_points(pt1, pt2, d) ==
    LET cx0 == pt1[1] - pt2[1]
        cy0 == pt1[2] - pt2[2]
        cl == cx0 * cx0 + cy0 * cy0
        discr == 4 * d * d - cl
        xy_swapped == Abs(cx0) < Abs(cy0)
        cx == IF xy_swapped THEN cy0 ELSE cx0
        cy == IF xy_swapped THEN cx0 ELSE cy0
        u2 == IF discr = 0 THEN 0 ELSE div(cx * sqrt(cl * discr), cl)
        v2 == cy - u2
        f2 == cy + u2
        q0 == <<div(cl - v2 * cy, 2 * cx), div(v2, 2)>>
        q1 == <<div(cl - f2 * cy, 2 * cx), div(f2, 2)>>
        sw(q) == IF xy_swapped THEN <<q[2], q[1]>> ELSE q
    IN IF discr < 0 THEN [count |-> 0, pts |-> <<>>]
       ELSE [count |-> cnt(discr), pts |-> <<plus(sw(q0), pt2), plus(sw(q1), pt2)>>]

\* Lines 114-195.
line_point_equal_distance_points(line, ipt, d) ==
    LET lv0 == minus(line_b(line), line_a(line))
        l2 == squaredNorm(lv0)
        lpv == minus(line_a(line), ipt)
        c0 == cross2(lpv, lv0)
        lv == IF c0 < 0 THEN <<- lv0[1], - lv0[2]>> ELSE lv0
        c == Abs(c0)
        a0 == - lv[2]
        b0 == lv[1]
        dscaled == d * sqrt(l2)
        s == c * (2 * dscaled - c)
        xy_swapped == Abs(a0) < Abs(b0)
        a == IF xy_swapped THEN b0 ELSE a0
        b == IF xy_swapped THEN a0 ELSE b0
        u == IF s = 0 THEN 0 ELSE div(a * sqrt(s), l2)
        e == dscaled - c
        f == div(b * e, l2)
        g == f - u
        h == f + u
        q0 == <<div(- b * g + e, a), g>>
        q1 == <<div(- b * h + e, a), h>>
        sw(q) == IF xy_swapped THEN <<q[2], q[1]>> ELSE q
    IN IF s < 0 THEN [count |-> 0, pts |-> <<>>]
       ELSE [count |-> IF s = 0 THEN 1 ELSE 2,
             pts |-> <<plus(sw(q0), ipt), plus(sw(q1), ipt)>>]

\* Lines 701-733: where the offset curve crosses the infinite half-edge.
infinite_edge_point(edge, offset_distance) ==
    LET c1 == cell(edge)
        c2 == cell(twin(edge))
        pt0 == contour_point(c1)
        pt1 == contour_point(c2)
        dir == <<pt0[2] - pt1[2], pt1[1] - pt0[1]>>
        pt == vertex_point(vertex0(edge))
        t == first_circle_segment_intersection_parameter(pt0, offset_distance, pt, dir)
        ipt == IF contains_segment(c1) THEN contour_point(c2) ELSE contour_point(c1)
        line == IF contains_segment(c1) THEN source_line(c1) ELSE source_line(c2)
        n == <<line[4] - line[2], line[1] - line[3]>>
    IN IF contains_point(c1) /\ contains_point(c2)
       THEN [pt |-> plus(pt, <<div(t[1] * dir[1], t[2]), div(t[1] * dir[2], t[2])>>),
             ok |-> t[1] > 0]
       ELSE [pt |-> plus(ipt, <<div(offset_distance * n[1], norm(n)),
                                div(offset_distance * n[2], norm(n))>>),
             ok |-> is_secondary(edge) /\ ipt \in {line_a(line), line_b(line)}]

\* Lines 783-815: the smallest distance along a point edge where it is below dmin, as a
\* fraction <<numerator, denominator>>.
dmin_new(edge, dmin) ==
    LET c1 == cell(edge)
        c2 == cell(twin(edge))
        p0 == vertex_point(vertex0(edge))
        p1 == vertex_point(vertex1(edge))
        px == IF contains_point(c1) THEN contour_point(c1) ELSE contour_point(c2)
        line == IF contains_segment(c1) THEN source_line(c1) ELSE source_line(c2)
        v_line == minus(line_b(line), line_a(line))
        t0 == dot(minus(p0, line_a(line)), v_line)
        t1 == dot(minus(p1, line_a(line)), v_line)
        tx == dot(minus(px, line_a(line)), v_line)
        c == cross2(minus(px, line_a(line)), v_line)
        v == minus(p1, p0)
        l2 == squaredNorm(v)
        t == dot(v, minus(px, p0))
    IN IF contains_point(c1) # contains_point(c2)
       THEN IF (tx >= t0 /\ tx <= t1) \/ (tx >= t1 /\ tx <= t0)
            THEN <<c * c, 4 * squaredNorm(v_line)>>
            ELSE <<dmin, 1>>
       ELSE IF t >= 0 /\ t <= l2
            THEN <<squaredNorm(minus(px, p0)) * l2 - t * t, l2>>
            ELSE <<dmin, 1>>

\* Lines 837-840 left out: the two points stay in the order of the kernel.
points_kept(t0, t1) == FALSE

\* The test at line 837: the two points are swapped into the order of their parameters
\* along the chord from vertex0 to vertex1.
points_swapped(t0, t1) == t0 > t1

\* Lines 829-860: which of the two computed points fall on this Voronoi edge.
select_points(ix, p0, p1, possibly_two_points) ==
    LET v == minus(p1, p0)
        l2 == squaredNorm(v)
        ta == dot(v, minus(ix.pts[1], p0))
        tb == dot(v, minus(ix.pts[2], p0))
        t0 == IF points_swapped(ta, tb) THEN tb ELSE ta
        t1 == IF points_swapped(ta, tb) THEN ta ELSE tb
        q0 == IF points_swapped(ta, tb) THEN ix.pts[2] ELSE ix.pts[1]
        q1 == IF points_swapped(ta, tb) THEN ix.pts[1] ELSE ix.pts[2]
        d0 == Max(squaredNorm(minus(ix.pts[1], p0)), squaredNorm(minus(ix.pts[1], p1)))
        d1 == Max(squaredNorm(minus(ix.pts[2], p0)), squaredNorm(minus(ix.pts[2], p1)))
    IN IF possibly_two_points
       THEN IF t0 < 0 \/ t0 > l2
            THEN IF t1 < 0 \/ t1 > l2
                 THEN [count |-> 0, pts |-> <<q0, q1>>]
                 ELSE [count |-> 1, pts |-> <<q1, q1>>]
            ELSE IF t1 < 0 \/ t1 > l2
                 THEN [count |-> 1, pts |-> <<q0, q1>>]
                 ELSE [count |-> 2, pts |-> <<q0, q1>>]
       ELSE [count |-> 1, pts |-> <<IF d0 > d1 THEN ix.pts[2] ELSE ix.pts[1], ix.pts[2]>>]

\* The test at line 687 with > in place of >=: an edge is intersected at dmax.
edge_below_offset(offset_distance, dmax) == offset_distance > dmax

\* The test at line 687: the offset curve does not cross the edge, or touches it at dmax.
edge_within_offset(offset_distance, dmax) == offset_distance >= dmax

\* The test at line 663 without its second half: the visited mark is not looked at.
edge_classified_by_point(p) == edge_offset_has_intersection(p)

\* The test at line 663: the half-edge holds an intersection point or the visited mark.
edge_already_classified(p) == edge_offset_has_intersection(p) \/ p.y # 0

\* Lines 780 and 812-814: the edge dips below the smaller distance of its ends, dmin_new
\* being the squared distance at the foot point (dn), and the offset curve may cross it twice.
possibly_two_points(offset_distance2, dmin, dn) ==
    /\ offset_distance2 < dmin
    /\ dn[1] < dmin * dn[2]
    /\ offset_distance2 * dn[2] >= dn[1]

\* Lines 780-781 and 814: the kernel is called for the edge.
has_intersection(offset_distance2, dmin, dn) ==
    offset_distance2 >= dmin \/ possibly_two_points(offset_distance2, dmin, dn)

\* The test at line 754 without its second half: a bisector below the offset distance
\* at both ends is intersected as well.
linear_edge_always_intersected(bisector, dmin, dmax, offset_distance) == TRUE

\* The test at line 754: a secondary edge is always intersected, a bisector if the offset
\* distance lies between the distances of its ends.
linear_edge_intersected(bisector, dmin, dmax, offset_distance) ==
    ~bisector \/ (dmin # dmax /\ offset_distance >= dmin)

\* The test at line 701 taken as always true: every infinite half-edge is intersected.
infinite_edge_always_reached(offset_distance, dmin) == TRUE

\* The test at line 701: the offset curve crosses the infinite half-edge, whose distance
\* grows from dmin at its tail.
infinite_edge_reached(offset_distance, dmin) == offset_distance >= dmin

\* The body of the loop at lines 661-878 for one half-edge: the new intersection array, whether
\* a null vertex was dereferenced, and whether every assertion held.
intersect_edge(out, edge) ==
    LET edge2 == twin(edge)
        v0 == vertex0(edge)
        v1 == vertex1(edge)
        outside == input.offset_distance > 0
        offset_distance == Abs(input.offset_distance)
        offset_distance2 == input.offset_distance * input.offset_distance
        s0 == IF v0 = 0 THEN DBL_MAX ELSE vertex_distances[v0]
        s1 == IF v1 = 0 THEN DBL_MAX ELSE vertex_distances[v1]
        d0 == IF outside THEN s0 ELSE - s0
        d1 == IF outside THEN s1 ELSE - s1
        dmin == IF d0 < d1 THEN d0 ELSE d1
        dmax == IF d0 < d1 THEN d1 ELSE d0
        c1 == cell(edge)
        c2 == cell(edge2)
        keep == [out |-> out, null |-> FALSE, ok |-> TRUE]
        \* lines 697-735
        infinite(inf) ==
            IF infinite_edge_reached(offset_distance, dmin)
            THEN [out |-> [out EXCEPT ![edge] = point(inf.pt), ![edge2] = mark_visited(@)],
                  null |-> FALSE, ok |-> inf.ok]
            ELSE [out |-> [out EXCEPT ![edge2] = mark_visited(@)], null |-> FALSE, ok |-> TRUE]
        \* lines 740-767
        bisector == contains_segment(c1) /\ contains_segment(c2)
        t == clamp01(offset_distance - dmin, dmax - dmin)
        linear ==
            IF linear_edge_intersected(bisector, dmin, dmax, offset_distance)
            THEN IF d1 < d0
                 THEN [out EXCEPT ![edge2] = point(lerp(vertex_point(v1), vertex_point(v0), t)),
                                  ![edge] = mark_visited(@)]
                 ELSE [out EXCEPT ![edge] = point(lerp(vertex_point(v0), vertex_point(v1), t)),
                                  ![edge2] = mark_visited(@)]
            ELSE [out EXCEPT ![edge] = mark_visited(@), ![edge2] = mark_visited(@)]
        linear_ok ==
            is_secondary(edge) =>
                /\ contains_point(c1) # contains_point(c2)
                /\ (vertex_category[v0] = "OnContour") # (vertex_category[v1] = "OnContour")
                /\ dmin = 0
        \* lines 768-873
        point_vs_segment == contains_point(c1) # contains_point(c2)
        pt0 == IF contains_point(c1) THEN contour_point(c1) ELSE contour_point(c2)
        first == IF d1 < d0 THEN edge2 ELSE edge
        second == IF d1 < d0 THEN edge ELSE edge2
        curved(dn, ix) ==
            LET two == possibly_two_points(offset_distance2, dmin, dn)
                has == has_intersection(offset_distance2, dmin, dn)
                selected(sel) ==
                    [out |-> IF has /\ ix.count = 2 /\ sel.count = 2
                             THEN [out EXCEPT ![edge] = point(sel.pts[2]),
                                              ![edge2] = point(sel.pts[1])]
                             ELSE IF has /\ ix.count = 2 /\ sel.count = 1
                             THEN [out EXCEPT ![first] = point(sel.pts[1]),
                                              ![second] = mark_visited(@)]
                             ELSE [out EXCEPT ![edge] = mark_visited(@),
                                              ![edge2] = mark_visited(@)],
                     null |-> FALSE,
                     ok |-> /\ offset_distance2 < dmin =>
                                   dn[1] <= dmin * dn[2] /\ dn[1] < dmax * dn[2]
                            /\ has => ix.count > 0
                            /\ has /\ ix.count = 2 => sel.count > 0]
            IN selected(select_points(ix, vertex_point(v0), vertex_point(v1), two))
    IN IF edge_already_classified(out[edge]) THEN keep
       ELSE IF d0 = d1 THEN keep
       ELSE IF edge_within_offset(offset_distance, dmax) THEN keep
       ELSE IF v0 = 0 THEN [out |-> out, null |-> TRUE, ok |-> FALSE]
       ELSE IF v1 = 0 THEN infinite(infinite_edge_point(edge, offset_distance))
       ELSE IF bisector \/ is_secondary(edge)
       THEN [out |-> linear, null |-> FALSE, ok |-> linear_ok]
       ELSE curved(dmin_new(edge, dmin),
                   IF point_vs_segment
                   THEN line_point_equal_distance_points(
                            IF contains_segment(c1) THEN source_line(c1) ELSE source_line(c2),
                            pt0, offset_distance)
                   ELSE point_point_equal_distance_points(pt0, contour_point(c2),
                                                          offset_distance))

\* sin, cos and acos of <cmath>: angles are in hundredths of a degree, sines and cosines in
\* ten-thousandths, interpolated between the whole degrees of the table.
sin_table ==
    <<0, 175, 349, 523, 698, 872, 1045, 1219, 1392, 1564, 1736, 1908, 2079,
      2250, 2419, 2588, 2756, 2924, 3090, 3256, 3420, 3584, 3746, 3907, 4067, 4226,
      4384, 4540, 4695, 4848, 5000, 5150, 5299, 5446, 5592, 5736, 5878, 6018, 6157,
      6293, 6428, 6561, 6691, 6820, 6947, 7071, 7193, 7314, 7431, 7547, 7660, 7771,
      7880, 7986, 8090, 8192, 8290, 8387, 8480, 8572, 8660, 8746, 8829, 8910, 8988,
      9063, 9135, 9205, 9272, 9336, 9397, 9455, 9511, 9563, 9613, 9659, 9703, 9744,
      9781, 9816, 9848, 9877, 9903, 9925, 9945, 9962, 9976, 9986, 9994, 9998, 10000>>

sin_degree(k) ==
    LET r == k % 360
    IN IF r <= 90 THEN sin_table[r + 1]
       ELSE IF r <= 180 THEN sin_table[181 - r]
       ELSE IF r <= 270 THEN - sin_table[r - 179]
       ELSE - sin_table[361 - r]

sin(a) ==
    LET k == a \div 100
    IN sin_degree(k) + div((sin_degree(k + 1) - sin_degree(k)) * (a % 100), 100)

cos(a) == sin(a + 9000)

\* acos(n / d), the argument clamped to [-1, 1] as at line 969.
acos(n, d) ==
    LET between(x, k) ==
            100 * k + div(100 * (cos(100 * k) - x), cos(100 * k) - cos(100 * (k + 1)))
        of(x) == between(x, CHOOSE j \in 0..179 :
                                /\ cos(100 * (j + 1)) <= x
                                /\ \A i \in 0..(j - 1) : cos(100 * (i + 1)) > x)
    IN of(IF n >= d THEN 10000 ELSE IF n <= - d THEN -10000 ELSE div(n * 10000, d))

\* coord_t(x) of the double n / d: the cast truncates towards zero.
coord_trunc(n, d) == IF n >= 0 THEN n \div d ELSE - ((- n) \div d)

\* Line 913.
angle_step == 2 * acos(Abs(input.offset_distance) - input.discretization_error,
                       Abs(input.offset_distance))

\* Line 913 divides by offset_distance and hands the quotient to acos unclamped: angle_step
\* and cos_threshold are NaN when the quotient is not in [-1, 1].
angle_step_nan ==
    \/ input.offset_distance = 0
    \/ input.discretization_error > 2 * Abs(input.offset_distance)

\* The loop at line 976 with i <= n_steps: the end of the arc is emitted with the interior.
arc_indices_inclusive(n_steps) == 1..n_steps

\* The loop at line 976: i = 1; i < n_steps.
arc_indices(n_steps) == 1..(n_steps - 1)

\* Lines 959-981: the vertices put on the arc from p1 to p2 around center.
arc_points(center, p1, p2) ==
    LET v1 == minus(p1, center)
        v2 == minus(p2, center)
        ccw == cross2(v1, v2) > 0
        cos_a == dot(v1, v2)
        nrm == norm(v1) * norm(v2)
        p(c, s) == <<center[1] + coord_trunc(c * v1[1] - s * v1[2], 10000),
                     center[2] + coord_trunc(s * v1[1] + c * v1[2], 10000)>>
        steps(n_steps, astep) ==
            [i \in arc_indices(n_steps) |-> p(cos(i * astep), sin(i * astep))]
        arc(angle, n_steps) ==
            steps(n_steps, IF ccw THEN div(angle, n_steps) ELSE - div(angle, n_steps))
        split(angle, step) == arc(angle, (angle + step - 1) \div step)
        limited(step) ==
            IF ~angle_step_nan /\ cos_a * 10000 < cos(step) * nrm
            THEN split(acos(cos_a, nrm), step)
            ELSE <<>>
    IN limited(angle_step)

\* Lines 894-900: the twin of the first half-edge after start_edge around its cell whose twin
\* holds an intersection, 0 for the null pointer.
RECURSIVE find_offset_edge(_, _, _)
find_offset_edge(points, edge, start_edge) ==
    IF edge = start_edge THEN 0
    ELSE IF edge_offset_has_intersection(points[twin(edge)]) THEN twin(edge)
    ELSE find_offset_edge(points, next(edge), start_edge)

next_offset_edge(points, start_edge) == find_offset_edge(points, next(start_edge), start_edge)

\* SCALED_EPSILON in the units of the integer geometry: a rounded coordinate is off by less
\* than one unit.
SCALED_EPSILON == 2

\* Geometry::foot_pt: the foot of the perpendicular from pt to the line through origin along dir.
foot_pt(origin, dir, pt) ==
    <<origin[1] + div(dir[1] * dot(minus(pt, origin), dir), squaredNorm(dir)),
      origin[2] + div(dir[2] * dot(minus(pt, origin), dir), squaredNorm(dir))>>

\* Lines 903-908.
dist_to_site(c, pt) ==
    IF contains_point(c) THEN norm(minus(contour_point(c), pt))
    ELSE norm(minus(foot_pt(line_a(source_line(c)),
                            minus(line_b(source_line(c)), line_a(source_line(c))), pt), pt))

\* The assertions at lines 949-950: both ends of the step are at the offset distance from
\* the site of the cell.
ends_at_offset(c, p1, p2) ==
    /\ Abs(dist_to_site(c, p1) - Abs(input.offset_distance)) < SCALED_EPSILON
    /\ Abs(dist_to_site(c, p2) - Abs(input.offset_distance)) < SCALED_EPSILON

\* The assertions of a step of the walk, lines 949-950 and 964.
trace_asserts(edge, p1, p2) ==
    /\ ends_at_offset(cell(edge), p1, p2)
    /\ contains_point(cell(edge)) =>
           norm(minus(p1, contour_point(cell(edge))))
               * norm(minus(p2, contour_point(cell(edge)))) > 0

\* Lines 934-989: the polygon after the step from edge to next_edge.
extend_poly(poly, edge, last_pt, p2) ==
    LET c == cell(edge)
        arc == IF contains_point(c) THEN arc_points(contour_point(c), last_pt, p2) ELSE <<>>
        closed(with_arc) ==
            IF with_arc = <<>> \/ with_arc[Len(with_arc)] # p2 THEN Append(with_arc, p2)
            ELSE with_arc
    IN closed(poly \o arc)

Builds == {"debug", "release"}

\* The invocations: the diagram and the order of its half-edges, what the caller runs on it
\* and the build.  The solver and the tracer run on the diagrams with integer geometry and
\* on Neck.
Annotated == {"Square", "LShape", "Crown", "Star", "Trapezoid", "Neck"}
Deltas ==
    [Square |-> {-60, -50, -20, 0, 20}, LShape |-> {-25, -17, -16, -3, 0, 15, 20, 50},
     Trapezoid |-> {-30, -20, -10, 0}, Neck |-> {-3, -2}]
Errors == {1}

Inputs ==
    [vd : Annotated, call : {"annotate_inside_outside", "signed_vertex_distances"},
     order : 1..NumOrders, build : Builds]
    \cup UNION {[vd : {d}, call : {"offset"}, offset_distance : Deltas[d],
                 discretization_error : Errors, order : 1..NumOrders, build : Builds] :
                d \in DOMAIN Deltas}

\* How often the caller repeats an invocation on the same diagram.
MaxCalls == 2

\* The categories are left as the previous invocation set them.
reset_none(categories) == categories

\* One loop of reset_inside_outside_annotations, lines 353-358.
reset(categories) == [i \in DOMAIN categories |-> "Unknown"]

\* No second invocation runs: its position, its place in vd.edges(), its stack of cells and
\* the polygons the caller keeps from the invocation it made alone.
Idle == [pc |-> "idle", idx |-> 1, q |-> <<>>, alone |-> <<>>]

\* The diagram is fresh and annotate_inside_outside has reset it, lines 351-359 and 365.
Init ==
    /\ input \in Inputs
    /\ vd = Diagrams[input.vd]
    /\ calls = 1
    /\ other = Idle
    /\ pc = "edges"
    /\ idx = 1
    /\ vertex_category = [v \in 1..num_vertices |-> "Unknown"]
    /\ edge_category = [e \in 1..num_edges |-> "Unknown"]
    /\ cell_category = [c \in 1..num_cells |-> "Unknown"]
    /\ cell_queue = <<>>
    /\ vertex_distances = <<>>
    /\ edge_points = <<>>
    /\ trace = <<>>
    /\ polygons = <<>>
    /\ intersections = <<>>

Store(a) ==
    /\ vertex_category' = a.vc
    /\ edge_category' = a.ec
    /\ cell_category' = a.cc
    /\ cell_queue' = a.q

\* A failed assertion ends a debug build; a release build does not evaluate it.
Aborts(a) == input.build = "debug" /\ ~a.ok

Abort ==
    /\ pc' = "aborted"
    /\ UNCHANGED <<idx, vertex_category, edge_category, cell_category, cell_queue>>

\* One iteration of the loop over vd.edges() at lines 416-524.
AnnotateEdge ==
    /\ pc = "edges"
    /\ LET Marked(a) ==
               IF Aborts(a) THEN Abort
               ELSE /\ Store(a)
                    /\ IF idx = num_edges THEN pc' = "propagate" /\ idx' = 1
                       ELSE pc' = pc /\ idx' = idx + 1
       IN Marked(annotate_step(Annotations, edge_at(idx)))
    /\ UNCHANGED <<invocation, vertex_distances, edge_points, trace, polygons>>

\* One iteration of the loop over vd.edges() at lines 530-561.
Propagate ==
    /\ pc = "propagate"
    /\ LET Propagated(a) ==
               IF Aborts(a) THEN Abort
               ELSE /\ Store(a)
                    /\ IF idx = num_edges THEN pc' = "fill" /\ idx' = 1
                       ELSE pc' = pc /\ idx' = idx + 1
       IN Propagated(propagate_step(Annotations, edge_at(idx)))
    /\ UNCHANGED <<invocation, vertex_distances, edge_points, trace, polygons>>

\* One iteration of the seed fill at lines 564-594.
SeedFill ==
    /\ pc = "fill"
    /\ cell_queue # <<>>
    /\ LET Filled(a) == IF Aborts(a) THEN Abort ELSE Store(a) /\ UNCHANGED <<pc, idx>>
       IN Filled(fill_step(Annotations))
    /\ UNCHANGED <<invocation, vertex_distances, edge_points, trace, polygons>>

\* Line 596: the queue is empty, annotate_inside_outside verifies its result and returns.
AnnotateReturn ==
    /\ pc = "fill"
    /\ cell_queue = <<>>
    /\ pc' = IF input.build = "debug" /\ ~verify_inside_outside_annotations THEN "aborted"
             ELSE IF input.call = "annotate_inside_outside" THEN "returned"
             ELSE "distances"
    /\ UNCHANGED <<invocation, idx, vertex_category, edge_category, cell_category, cell_queue,
                   vertex_distances, edge_points, trace, polygons>>

\* signed_vertex_distances, lines 599-638.
SignedVertexDistances ==
    /\ pc = "distances"
    /\ IF input.build = "debug" /\ ~verify_inside_outside_annotations
       THEN pc' = "aborted" /\ UNCHANGED <<vertex_distances, edge_points>>
       ELSE /\ vertex_distances' = [v \in 1..num_vertices |-> signed_vertex_distance(v)]
            /\ IF input.call = "signed_vertex_distances"
               THEN pc' = "returned" /\ UNCHANGED edge_points
               ELSE /\ pc' = "intersections"
                    /\ edge_points' = [e \in 1..num_edges |-> Unclassified]
    /\ UNCHANGED <<invocation, idx, vertex_category, edge_category, cell_category, cell_queue,
                   trace, polygons>>

\* One iteration of the loop over vd.edges() at lines 661-878.
Intersect ==
    /\ pc = "intersections"
    /\ LET Intersected(r) ==
               IF input.build = "debug" /\ (~r.ok \/ ~(Abs(input.offset_distance) > 0))
               THEN pc' = "aborted" /\ UNCHANGED <<idx, edge_points>>
               ELSE IF r.null
               THEN pc' = "crashed" /\ UNCHANGED <<idx, edge_points>>
               ELSE /\ edge_points' = r.out
                    /\ IF idx = num_edges THEN pc' = "seeds" /\ idx' = 1
                       ELSE pc' = pc /\ idx' = idx + 1
       IN Intersected(intersect_edge(edge_points, edge_at(idx)))
    /\ UNCHANGED <<invocation, vertex_category, edge_category, cell_category, cell_queue,
                   vertex_distances, trace, polygons>>

\* Line 938 left out: the intersection stays in the array.
consume_none(points, edge) == points

\* Line 938 overwriting the whole entry: the y coordinate is lost with the x coordinate.
consume_clearing(points, edge) == [points EXCEPT ![edge] = Unclassified]

\* Line 938: the x coordinate of the intersection becomes NaN, the intersection is consumed.
consume(points, edge) == [points EXCEPT ![edge].nan = TRUE, ![edge].x = 0]

\* The loop over the seeds advances, lines 916 and 993-995.
NextSeed ==
    IF idx = num_edges THEN pc' = "returned" /\ idx' = idx
    ELSE pc' = "seeds" /\ idx' = idx + 1

\* One iteration of the loop over the seeds at lines 916-920: a half-edge that holds an
\* intersection starts a polygon.
Seed ==
    /\ pc = "seeds"
    /\ IF edge_offset_has_intersection(edge_points[edge_at(idx)])
       THEN /\ trace' = [start_edge |-> edge_at(idx), edge |-> edge_at(idx),
                         last_pt |-> <<edge_points[edge_at(idx)].x, edge_points[edge_at(idx)].y>>,
                         poly |-> <<>>]
            /\ pc' = "walk"
            /\ idx' = idx
       ELSE NextSeed /\ UNCHANGED trace
    /\ UNCHANGED <<invocation, vertex_category, edge_category, cell_category, cell_queue,
                   vertex_distances, edge_points, polygons>>

\* One iteration of the do-while at lines 922-990, and line 991 when the walk is back at its
\* start.  Without a following half-edge the assertion at line 931 ends a debug build and a
\* release build indexes edge_points with the null pointer.
Walk ==
    /\ pc = "walk"
    /\ LET Extended(next_edge, p2, poly) ==
               /\ edge_points' = consume(edge_points, next_edge)
               /\ IF next_edge = trace.start_edge
                  THEN /\ polygons' = Append(polygons, poly)
                       /\ trace' = <<>>
                       /\ NextSeed
                  ELSE /\ trace' = [trace EXCEPT !.edge = next_edge, !.last_pt = p2, !.poly = poly]
                       /\ UNCHANGED <<pc, idx, polygons>>
           Reached(next_edge, p2) ==
               IF input.build = "debug" /\ ~trace_asserts(trace.edge, trace.last_pt, p2)
               THEN pc' = "aborted" /\ UNCHANGED <<idx, edge_points, trace, polygons>>
               ELSE Extended(next_edge, p2,
                             extend_poly(trace.poly, trace.edge, trace.last_pt, p2))
           Found(next_edge) ==
               IF next_edge = 0
               THEN /\ pc' = IF input.build = "debug" THEN "aborted" ELSE "crashed"
                    /\ UNCHANGED <<idx, edge_points, trace, polygons>>
               ELSE Reached(next_edge, <<edge_points[next_edge].x, edge_points[next_edge].y>>)
       IN Found(next_offset_edge(edge_points, trace.edge))
    /\ UNCHANGED <<invocation, vertex_category, edge_category, cell_category, cell_queue,
                   vertex_distances>>

\* The caller repeats the invocation on the diagram it has annotated: the locals of the
\* previous invocation are gone and annotate_inside_outside starts with its reset, line 365.
Again ==
    /\ pc = "returned"
    /\ calls < MaxCalls
    /\ calls' = calls + 1
    /\ vertex_category' = reset(vertex_category)
    /\ edge_category' = reset(edge_category)
    /\ cell_category' = reset(cell_category)
    /\ cell_queue' = <<>>
    /\ vertex_distances' = <<>>
    /\ edge_points' = <<>>
    /\ trace' = <<>>
    /\ polygons' = <<>>
    /\ pc' = "edges"
    /\ idx' = 1
    /\ UNCHANGED <<input, vd, other, intersections>>

Next == AnnotateEdge \/ Propagate \/ SeedFill \/ AnnotateReturn \/ SignedVertexDistances
        \/ Intersect \/ Seed \/ Walk \/ Again

Spec == Init /\ [][Next]_vars

\* annotate_inside_outside has returned to its caller.
annotated == pc \in {"returned", "distances", "intersections", "seeds", "walk", "crashed"}

\* The counters of verify_inside_outside_annotations over the whole incident cycle of cell c.
cycle_counts(c) == cell_counts(NoCounts, vd.cell_incident_edge[c], vd.cell_incident_edge[c])

\* The cells across the half-edges of the incident cycle of cell c.
RECURSIVE cycle_edges(_, _)
cycle_edges(edge, first_edge) ==
    {edge} \cup (IF next(edge) = first_edge THEN {} ELSE cycle_edges(next(edge), first_edge))

neighbours(c) ==
    {cell(twin(e)) : e \in cycle_edges(vd.cell_incident_edge[c], vd.cell_incident_edge[c])}

\* C1: once annotate_inside_outside has returned, no vertex, no half-edge and no cell is
\* Unknown, the vertices between point cells only (annotated by propagation) included.
C1_NoUnknown ==
    annotated =>
        /\ \A v \in 1..num_vertices : vertex_category[v] # "Unknown"
        /\ \A e \in 1..num_edges : edge_category[e] # "Unknown"
        /\ \A c \in 1..num_cells : cell_category[c] # "Unknown"

\* C2: once annotate_inside_outside has returned, the incident cycle of every Boundary cell
\* has exactly two PointsToContour half-edges and two OnContour head vertices, and at least
\* one Inside vertex, one Outside vertex (an absent head counts as Outside), one PointsInside
\* and one PointsOutside half-edge.
C2_BoundaryCellShape ==
    annotated =>
        \A c \in 1..num_cells :
            cell_category[c] = "Boundary" =>
                LET n == cycle_counts(c)
                IN /\ n.num_edges_point_to_contour = 2
                   /\ n.num_vertices_on_contour = 2
                   /\ n.num_vertices_inside > 0
                   /\ n.num_vertices_outside > 0
                   /\ n.num_edges_point_inside > 0
                   /\ n.num_edges_point_outside > 0

\* C3: a point cell is never Boundary, and a point cell that is Inside or Outside keeps its
\* category in every step.
C3_PointCellFinal ==
    [][\A c \in 1..num_cells :
          contains_point(c) =>
              /\ cell_category'[c] # "Boundary"
              /\ cell_category[c] \in {"Inside", "Outside"} => cell_category'[c] = cell_category[c]]_vars

\* C4: once annotate_inside_outside has returned, the cycle of every Inside cell has no
\* Outside vertex, no PointsOutside half-edge, at most one OnContour vertex and at most one
\* PointsToContour half-edge, and its neighbours are Inside or Boundary; symmetrically for
\* every Outside cell.
C4_InsideOutsideCellShape ==
    annotated =>
        \A c \in 1..num_cells :
            LET n == cycle_counts(c)
            IN /\ cell_category[c] = "Inside" =>
                      /\ n.num_vertices_outside = 0
                      /\ n.num_edges_point_outside = 0
                      /\ n.num_vertices_on_contour <= 1
                      /\ n.num_edges_point_to_contour <= 1
                      /\ \A c2 \in neighbours(c) : cell_category[c2] \in {"Inside", "Boundary"}
               /\ cell_category[c] = "Outside" =>
                      /\ n.num_vertices_inside = 0
                      /\ n.num_edges_point_inside = 0
                      /\ n.num_vertices_on_contour <= 1
                      /\ n.num_edges_point_to_contour <= 1
                      /\ \A c2 \in neighbours(c) : cell_category[c2] \in {"Outside", "Boundary"}

\* C5: the value signed_vertex_distances returns for a vertex is negative exactly when the
\* vertex is Inside, zero exactly when it is OnContour, positive exactly when it is Outside.
C5_DistanceSign ==
    vertex_distances # <<>> =>
        \A v \in 1..num_vertices :
            /\ vertex_distances[v] < 0 <=> vertex_category[v] = "Inside"
            /\ vertex_distances[v] = 0 <=> vertex_category[v] = "OnContour"
            /\ vertex_distances[v] > 0 <=> vertex_category[v] = "Outside"

\* The half-edges that hold an unconsumed intersection.
unconsumed(points) == {e \in DOMAIN points : ~points[e].nan}

\* C6: every trace closes: at every step of a walk some following half-edge of the current
\* cell has a twin with an unconsumed intersection, so that the walk can only end by coming
\* back to its seed.
C6_TracesClose == pc = "walk" => next_offset_edge(edge_points, trace.edge) # 0

\* C7: every intersection is consumed exactly once: a polygon is started only at a half-edge
\* with an unconsumed intersection, every step of a walk consumes exactly one unconsumed
\* intersection and appends its point, no consumed intersection comes back, the seed's own
\* intersection is consumed when the walk is back at it, and none is left when offset returns.
C7_ConsumedOnce ==
    [][/\ (pc = "seeds" /\ pc' = "walk") => trace'.start_edge \in unconsumed(edge_points)
       /\ pc \in {"seeds", "walk"} =>
              \A e \in unconsumed(edge_points') : edge_points'[e] = edge_points[e]
       /\ (pc = "walk" /\ trace' # trace) =>
              \E e \in unconsumed(edge_points) :
                  /\ unconsumed(edge_points') = unconsumed(edge_points) \ {e}
                  /\ LET poly == IF trace' = <<>> THEN polygons'[Len(polygons')] ELSE trace'.poly
                     IN poly[Len(poly)] = <<edge_points[e].x, edge_points[e].y>>
       /\ (pc = "walk" /\ trace' = <<>>) => trace.start_edge \notin unconsumed(edge_points')
       /\ (pc' = "returned" /\ input.call = "offset") => unconsumed(edge_points') = {}]_vars

C7_Witness ==
    /\ pc = "returned"
    /\ input.call = "offset"
    /\ Len(polygons) = 2
    /\ unconsumed(edge_points) = {}

\* C8: when no following half-edge of the current cell has a twin with an intersection,
\* offset ends with an OpenLoopError reported to its caller.
C8_OpenLoopReported ==
    [][(pc = "walk" /\ next_offset_edge(edge_points, trace.edge) = 0)
           => pc' = "OpenLoopError"]_vars

\* C9: in the solver every entry of the intersection array is unclassified, the visited mark
\* or one intersection point, an iteration writes only entries that were unclassified (a
\* point is never overwritten, the visited mark never written into it), and an iteration at a
\* half-edge that is already classified changes nothing; in every order of the half-edges.
C9_DecidedOnce ==
    [][pc = "intersections" =>
           /\ \A e \in 1..num_edges :
                  /\ edge_points'[e].nan => edge_points'[e] \in {Unclassified, mark_visited(Unclassified)}
                  /\ edge_points'[e] # edge_points[e] => edge_points[e] = Unclassified
           /\ edge_points[edge_at(idx)] # Unclassified =>
                  /\ edge_points' = edge_points
                  /\ pc' \in {"intersections", "seeds"}]_vars

C9_Witness ==
    /\ pc = "intersections"
    /\ ~edge_points[edge_at(idx)].nan
    /\ edge_points[twin(edge_at(idx))] = mark_visited(Unclassified)
    /\ \E p \in 1..(idx - 1) : edge_points[edge_at(p)] = Unclassified

\* The distance of a vertex as the solver compares it with the offset distance.
adjusted_distance(v) ==
    IF input.offset_distance > 0 THEN vertex_distances[v] ELSE - vertex_distances[v]

\* The solver has decided every half-edge and the tracer has not started.
solved == pc = "seeds" /\ idx = 1 /\ polygons = <<>>

\* The offset distance equals the distance of a vertex.
tie == \E v \in 1..num_vertices : adjusted_distance(v) = Abs(input.offset_distance)

\* At a tie no half-edge that ends at the tied vertex from a vertex of smaller distance, and
\* no twin of one, holds an intersection (lines 671 and 687).
C10_LargerEnd ==
    solved =>
        \A e \in 1..num_edges :
            (/\ vertex0(e) # 0
             /\ vertex1(e) # 0
             /\ adjusted_distance(vertex1(e)) = Abs(input.offset_distance)
             /\ adjusted_distance(vertex0(e)) < adjusted_distance(vertex1(e)))
            => edge_points[e].nan /\ edge_points[twin(e)].nan

\* At a tie a bisector or secondary half-edge that leaves the tied vertex for a vertex of
\* larger distance holds the tied vertex as its intersection (lines 754-765, t = 0).
C10_SmallerEnd ==
    solved =>
        \A e \in 1..num_edges :
            (/\ vertex0(e) # 0
             /\ vertex1(e) # 0
             /\ is_secondary(e) \/ (contains_segment(cell(e)) /\ contains_segment(cell(twin(e))))
             /\ adjusted_distance(vertex0(e)) = Abs(input.offset_distance)
             /\ adjusted_distance(vertex0(e)) < adjusted_distance(vertex1(e)))
            => /\ edge_points[e] = point(vertex_point(vertex0(e)))
               /\ edge_points[twin(e)].nan

\* At a tie every step of a walk finds its following half-edge.
C10_Close == (pc = "walk" /\ tie) => next_offset_edge(edge_points, trace.edge) # 0

\* C10: when the offset distance equals the distance of a vertex, no edge that has the vertex
\* as its endpoint of larger distance records an intersection, every bisector or secondary
\* edge that has it as its endpoint of smaller distance records the vertex itself on the
\* half-edge leaving it, and the traces still close.
C10_TieBreak == C10_LargerEnd /\ C10_SmallerEnd /\ C10_Close

\* An inward offset at least as far from the contour as every Inside vertex.
collapse ==
    /\ input.call = "offset"
    /\ input.offset_distance < 0
    /\ vertex_distances # <<>>
    /\ \A v \in 1..num_vertices :
           vertex_category[v] = "Inside" => Abs(vertex_distances[v]) <= Abs(input.offset_distance)

\* C11: an inward offset whose magnitude is at least the distance magnitude of every Inside
\* vertex records no intersection on any half-edge, never fails in the solver or the tracer
\* and returns no polygon.
C11_Collapse ==
    collapse =>
        /\ pc \notin {"aborted", "crashed", "walk"}
        /\ edge_points # <<>> => unconsumed(edge_points) = {}
        /\ polygons = <<>>

C11_Witness ==
    /\ collapse
    /\ pc = "returned"
    /\ polygons = <<>>
    /\ \E e \in 1..num_edges : vertex1(e) = 0
    /\ \E v \in 1..num_vertices :
           vertex_category[v] = "Inside" /\ Abs(vertex_distances[v]) = Abs(input.offset_distance)

\* The corners of the input contour in the order of its lines.
contour == [i \in 1..Len(vd.lines) |-> line_a(vd.lines[i])]

reversed(s) == [i \in 1..Len(s) |-> s[Len(s) + 1 - i]]

\* The closed polygon p starts somewhere on the closed polygon q and runs the same way.
same_cycle(p, q) ==
    /\ Len(p) = Len(q)
    /\ \E k \in 0..(Len(q) - 1) : \A i \in 1..Len(q) : p[i] = q[((i - 1 + k) % Len(q)) + 1]

\* Two polygons with the same closed curve, in either direction.
equivalent(p, q) == same_cycle(p, q) \/ same_cycle(p, reversed(q))

\* C12: offset called with delta = 0 is accepted, it does not end in a failed assertion or a
\* crash, and returns one polygon equivalent to the input contour.
C12_Idempotent ==
    (input.call = "offset" /\ input.offset_distance = 0) =>
        /\ pc \notin {"aborted", "crashed"}
        /\ pc = "returned" => Len(polygons) = 1 /\ equivalent(polygons[1], contour)

\* What a build without assertions returns for delta = 0: the contour, clockwise.
C12_Release ==
    (input.call = "offset" /\ input.offset_distance = 0 /\ input.build = "release") =>
        /\ pc \notin {"aborted", "crashed"}
        /\ pc = "returned" => Len(polygons) = 1 /\ same_cycle(polygons[1], reversed(contour))

\* The loops of annotate_inside_outside run to their end on the annotations a, not looking
\* at the assertions, over the half-edges from first to last.  Each half of the range is
\* taken from a one-element set, which evaluates it before the other half starts.
RECURSIVE annotate_edges(_, _, _)
annotate_edges(a, first, last) ==
    IF first = last THEN annotate_step(a, edge_at(first))
    ELSE CHOOSE r \in {annotate_edges(b, (first + last) \div 2 + 1, last) :
                           b \in {annotate_edges(a, first, (first + last) \div 2)}} : TRUE

RECURSIVE propagate_edges(_, _, _)
propagate_edges(a, first, last) ==
    IF first = last THEN propagate_step(a, edge_at(first))
    ELSE CHOOSE r \in {propagate_edges(b, (first + last) \div 2 + 1, last) :
                           b \in {propagate_edges(a, first, (first + last) \div 2)}} : TRUE

RECURSIVE fill_cells(_)
fill_cells(a) ==
    IF a.q = <<>> THEN a ELSE CHOOSE r \in {fill_cells(b) : b \in {fill_step(a)}} : TRUE

\* What annotate_inside_outside leaves on a diagram whose categories are all Unknown.
annotated_once ==
    fill_cells(propagate_edges(annotate_edges(
        [vc |-> [v \in 1..num_vertices |-> "Unknown"], ec |-> [e \in 1..num_edges |-> "Unknown"],
         cc |-> [c \in 1..num_cells |-> "Unknown"], q |-> <<>>, ok |-> TRUE],
        1, num_edges), 1, num_edges))

\* C13: every invocation of annotate_inside_outside after the first one starts by setting
\* every vertex, edge and cell category to Unknown, and every invocation that returns, the
\* first one or a later one, by itself or inside offset, leaves the categories that
\* depend on the diagram alone.
C13_Idempotent ==
    [][/\ calls' # calls =>
             /\ \A v \in 1..num_vertices : vertex_category'[v] = "Unknown"
             /\ \A e \in 1..num_edges : edge_category'[e] = "Unknown"
             /\ \A c \in 1..num_cells : cell_category'[c] = "Unknown"
       /\ (pc = "fill" /\ pc' \in {"returned", "distances"}) =>
             /\ vertex_category' = annotated_once.vc
             /\ edge_category' = annotated_once.ec
             /\ cell_category' = annotated_once.cc]_vars

\* The second invocation on a diagram has returned and left categories on every kind of
\* entity.
C13_Witness ==
    /\ calls = 2
    /\ pc = "returned"
    /\ \E v \in 1..num_vertices : vertex_category[v] = "Inside"
    /\ \E c \in 1..num_cells : cell_category[c] = "Boundary"
    /\ \E e \in 1..num_edges : edge_category[e] = "PointsToContour"

(***************************************************************************)
(* Two invocations of offset on one diagram.  The caller first makes the   *)
(* invocation alone and keeps its polygons, then makes it again while a    *)
(* second invocation, with another offset distance, runs on the same       *)
(* diagram.  The categories are fields of the diagram, which offset        *)
(* writes through const_cast (line 1662), so both invocations write the    *)
(* same fields; of the second invocation only annotate_inside_outside is   *)
(* followed, the rest of it writes its own arrays.  The steps of the two   *)
(* invocations interleave at the loop iterations.                          *)
(***************************************************************************)
InputsPar ==
    [vd : {"Square"}, call : {"offset"}, offset_distance : {-20, 20},
     discretization_error : Errors, order : {1}, build : Builds]

InitPar == Init /\ input \in InputsPar

\* The caller keeps the polygons of the invocation it made alone and starts both
\* invocations; the first one has passed its reset.
Together ==
    /\ pc = "returned"
    /\ calls = 1
    /\ other = Idle
    /\ other' = [pc |-> "reset", idx |-> 1, q |-> <<>>, alone |-> polygons]
    /\ calls' = calls + 1
    /\ vertex_category' = reset(vertex_category)
    /\ edge_category' = reset(edge_category)
    /\ cell_category' = reset(cell_category)
    /\ cell_queue' = <<>>
    /\ vertex_distances' = <<>>
    /\ edge_points' = <<>>
    /\ trace' = <<>>
    /\ polygons' = <<>>
    /\ pc' = "edges"
    /\ idx' = 1
    /\ UNCHANGED <<input, vd, intersections>>

\* The annotations as the second invocation sees them: the categories of the diagram and
\* its own stack of cells.
AnnotationsOther == [Annotations EXCEPT !.q = other.q]

\* The second invocation writes the categories of the diagram and keeps its own locals.
StoreOther(a, next_pc, next_idx) ==
    /\ vertex_category' = a.vc
    /\ edge_category' = a.ec
    /\ cell_category' = a.cc
    /\ other' = [other EXCEPT !.pc = next_pc, !.idx = next_idx, !.q = a.q]
    /\ UNCHANGED <<input, vd, calls, intersections, pc, idx, cell_queue, vertex_distances,
                   edge_points, trace, polygons>>

\* Line 365 in the second invocation.
OtherReset ==
    /\ other.pc = "reset"
    /\ StoreOther([vc |-> reset(vertex_category), ec |-> reset(edge_category),
                   cc |-> reset(cell_category), q |-> <<>>, ok |-> TRUE], "edges", 1)

\* Lines 416-524 in the second invocation.
OtherAnnotateEdge ==
    /\ other.pc = "edges"
    /\ IF other.idx = num_edges
       THEN StoreOther(annotate_step(AnnotationsOther, edge_at(other.idx)), "propagate", 1)
       ELSE StoreOther(annotate_step(AnnotationsOther, edge_at(other.idx)), "edges",
                       other.idx + 1)

\* Lines 530-561 in the second invocation.
OtherPropagate ==
    /\ other.pc = "propagate"
    /\ IF other.idx = num_edges
       THEN StoreOther(propagate_step(AnnotationsOther, edge_at(other.idx)), "fill", 1)
       ELSE StoreOther(propagate_step(AnnotationsOther, edge_at(other.idx)), "propagate",
                       other.idx + 1)

\* Lines 564-594 in the second invocation; with an empty stack it leaves
\* annotate_inside_outside and writes the diagram no more.
OtherSeedFill ==
    /\ other.pc = "fill"
    /\ IF other.q = <<>>
       THEN StoreOther(AnnotationsOther, "done", 1)
       ELSE StoreOther(fill_step(AnnotationsOther), "fill", 1)

NextPar ==
    AnnotateEdge \/ Propagate \/ SeedFill \/ AnnotateReturn \/ SignedVertexDistances
    \/ Intersect \/ Seed \/ Walk \/ Together
    \/ OtherReset \/ OtherAnnotateEdge \/ OtherPropagate \/ OtherSeedFill

SpecPar == InitPar /\ [][NextPar]_vars

\* C14: an invocation of offset that runs while another invocation, with another offset
\* distance, runs on the same diagram does not fail and returns the polygons it returns
\* when it runs alone.
C14_Parallel ==
    calls = 2 =>
        /\ pc \notin {"aborted", "crashed"}
        /\ pc = "returned" => polygons = other.alone

\* The step of a walk from trace.edge to the following half-edge: the cell it goes through,
\* its ends p1 and p2, and the vertices it puts on the polygon.
walk_step ==
    LET next_edge == next_offset_edge(edge_points, trace.edge)
        poly == IF trace' = <<>> THEN polygons'[Len(polygons')] ELSE trace'.poly
    IN [cell |-> cell(trace.edge), p1 |-> trace.last_pt,
        p2 |-> <<edge_points[next_edge].x, edge_points[next_edge].y>>,
        emitted |-> SubSeq(poly, Len(trace.poly) + 1, Len(poly))]

walks == pc = "walk" /\ pc' \notin {"aborted", "crashed"}

\* The angle of the arc from p1 to p2 around center.
arc_angle(center, p1, p2) ==
    acos(dot(minus(p1, center), minus(p2, center)),
         norm(minus(p1, center)) * norm(minus(p2, center)))

\* The point lies on the circle of radius D around center; coord_t() moves each coordinate
\* by less than one unit and the ends of the arc are themselves on the grid.
on_circle(pt, center, D) ==
    /\ D <= 2 \/ squaredNorm(minus(pt, center)) >= (D - 2) * (D - 2)
    /\ squaredNorm(minus(pt, center)) <= (D + 2) * (D + 2)

\* A step that goes through the cell of a point along an arc longer than angle_step.
long_arc ==
    /\ walks
    /\ contains_point(walk_step.cell)
    /\ ~angle_step_nan
    /\ arc_angle(contour_point(walk_step.cell), walk_step.p1, walk_step.p2) > angle_step

\* The vertices emitted are n interior vertices on the circle and then the end point p2,
\* which is left out when the last vertex of the polygon is equal to it (line 986).
emits_interior(step, n) ==
    /\ Len(step.emitted) >= n
    /\ \A k \in 1..n :
           on_circle(step.emitted[k], contour_point(step.cell), Abs(input.offset_distance))
    /\ \/ Len(step.emitted) = n + 1 /\ step.emitted[n + 1] = step.p2
       \/ Len(step.emitted) = n /\ n > 0 /\ step.emitted[n] = step.p2

\* What C15 says of the step of a walk.
arc_vertices ==
    /\ long_arc =>
            LET angle == arc_angle(contour_point(walk_step.cell), walk_step.p1, walk_step.p2)
                n_steps == (angle + angle_step - 1) \div angle_step
            IN /\ emits_interior(walk_step, n_steps - 1)
               /\ n_steps >= 2
               /\ div(angle, n_steps) <= angle_step
    /\ (walks /\ contains_segment(walk_step.cell)) =>
            walk_step.emitted \in {<<>>, <<walk_step.p2>>}

\* C15: for both signs of delta, a step through the cell of a point along an arc longer than
\* angle_step emits ceil(arc_angle / angle_step) - 1 interior vertices on the circle of radius
\* |delta| around the point before the end point, and the rotation between two of them is at
\* most angle_step; a step through the cell of a segment emits no interior vertex.
C15_ArcVertices == [][arc_vertices]_vars

\* The ends of the arc of a step are at the distance |delta| from the point of its cell.
arc_ends_on_circle ==
    /\ on_circle(walk_step.p1, contour_point(walk_step.cell), Abs(input.offset_distance))
    /\ on_circle(walk_step.p2, contour_point(walk_step.cell), Abs(input.offset_distance))

\* The vertices of C15 are emitted on every arc whose ends are on the circle.
C15_FromCircle == [][(long_arc => arc_ends_on_circle) => arc_vertices]_vars

\* A walk of an inward offset has just gone through the cell of a point, and the last three
\* vertices of its polygon are on the circle around that point: the arc is discretized.
C15_Witness ==
    /\ pc = "walk"
    /\ input.offset_distance < 0
    /\ contains_point(cell(twin(trace.edge)))
    /\ Len(trace.poly) >= 3
    /\ trace.poly[Len(trace.poly)] = trace.last_pt
    /\ \A k \in (Len(trace.poly) - 2)..Len(trace.poly) :
           on_circle(trace.poly[k], contour_point(cell(twin(trace.edge))),
                     Abs(input.offset_distance))

\* The distance of pt from the segment of a line of the contour.
segment_distance(line, pt) ==
    LET v == minus(line_b(line), line_a(line))
        t == dot(minus(pt, line_a(line)), v)
    IN IF t <= 0 THEN norm(minus(pt, line_a(line)))
       ELSE IF t >= squaredNorm(v) THEN norm(minus(pt, line_b(line)))
       ELSE ray_point_distance(line_a(line), v, pt)

\* Every vertex of the polygons returned is no nearer than |delta| - discretization_error to
\* any line of the contour and at |delta| from the nearest one, both within SCALED_EPSILON.
vertices_at_offset ==
    (pc = "returned" /\ input.call = "offset") =>
        \A i \in 1..Len(polygons) : \A k \in 1..Len(polygons[i]) :
            /\ \A l \in 1..Len(vd.lines) :
                   segment_distance(vd.lines[l], polygons[i][k])
                       > Abs(input.offset_distance) - input.discretization_error - SCALED_EPSILON
            /\ \E l \in 1..Len(vd.lines) :
                   segment_distance(vd.lines[l], polygons[i][k])
                       < Abs(input.offset_distance) + input.discretization_error + SCALED_EPSILON

\* C16: for both signs of delta, every vertex of every polygon returned has no line of the
\* contour nearer than |delta| - discretization_error and the nearest one at |delta|, within
\* the tolerance; both ends p1 and p2 of every step of a walk are at the distance |delta|,
\* within SCALED_EPSILON, from the site of the cell the step goes through.
C16_OffsetDistance ==
    [][/\ vertices_at_offset'
       /\ walks => ends_at_offset(walk_step.cell, walk_step.p1, walk_step.p2)]_vars

(***************************************************************************)
(* detail::point_point_equal_distance_points called on its own, on two     *)
(* different points of the grid and a distance.                            *)
(***************************************************************************)
Coordinates == {-40, -32, -24, -7, 0, 7, 24, 32, 40}
Distances == {5, 12, 20, 25, 29, 40}

InputsPoints ==
    {i \in [call : {"point_point_equal_distance_points"}, pt1 : Coordinates \X Coordinates,
            pt2 : {<<0, 0>>, <<7, -24>>}, d : Distances, build : Builds] : i.pt1 # i.pt2}

InitPoints ==
    /\ input \in InputsPoints
    /\ vd = <<>>
    /\ calls = 1
    /\ other = Idle
    /\ pc = "called"
    /\ idx = 1
    /\ vertex_category = <<>>
    /\ edge_category = <<>>
    /\ cell_category = <<>>
    /\ cell_queue = <<>>
    /\ vertex_distances = <<>>
    /\ edge_points = <<>>
    /\ trace = <<>>
    /\ polygons = <<>>
    /\ intersections = <<>>

\* The assertions at lines 106-109.
equal_distance_asserts(r, pt1, pt2, d) ==
    \A k \in 1..Len(r.pts) :
        /\ Abs(norm(minus(r.pts[k], pt1)) - d) < SCALED_EPSILON
        /\ Abs(norm(minus(r.pts[k], pt2)) - d) < SCALED_EPSILON

\* The call of detail::point_point_equal_distance_points, lines 63-111.
PointPointEqualDistancePoints ==
    /\ pc = "called"
    /\ LET Returned(r) ==
               IF input.build = "debug" /\ ~equal_distance_asserts(r, input.pt1, input.pt2, input.d)
               THEN pc' = "aborted" /\ UNCHANGED intersections
               ELSE pc' = "returned" /\ intersections' = r
       IN Returned(point_point_equal_distance_points(input.pt1, input.pt2, input.d))
    /\ UNCHANGED <<input, vd, calls, other, idx, vertex_category, edge_category, cell_category,
                   cell_queue, vertex_distances, edge_points, trace, polygons>>

NextPoints == PointPointEqualDistancePoints

SpecPoints == InitPoints /\ [][NextPoints]_vars

\* C17: point_point_equal_distance_points(p1, p2, D) with p1 # p2 returns count 0 when
\* 4 D^2 < |p1 - p2|^2, count 1 when 4 D^2 = |p1 - p2|^2 and count 2 when 4 D^2 > |p1 - p2|^2,
\* and every point it returns is at the distance D from p1 and from p2.
C17_EqualDistancePoints ==
    pc = "returned" =>
        LET l2 == squaredNorm(minus(input.pt1, input.pt2))
        IN /\ 4 * input.d * input.d < l2 => intersections.count = 0
           /\ 4 * input.d * input.d = l2 => intersections.count = 1
           /\ 4 * input.d * input.d > l2 => intersections.count = 2
           /\ \A k \in 1..intersections.count :
                  /\ Abs(norm(minus(intersections.pts[k], input.pt1)) - input.d) < SCALED_EPSILON
                  /\ Abs(norm(minus(intersections.pts[k], input.pt2)) - input.d) < SCALED_EPSILON

\* The two circles touch: one point is returned.
C17_Witness ==
    /\ pc = "returned"
    /\ input.call = "point_point_equal_distance_points"
    /\ 4 * input.d * input.d = squaredNorm(minus(input.pt1, input.pt2))
    /\ intersections.count = 1

\* The place of a cell category in the order Unknown -> {Inside, Outside} -> Boundary.
cell_rank(cc) == CASE cc = "Unknown" -> 0 [] cc = "Boundary" -> 2 [] OTHER -> 1

\* The category stays or moves up the order.
moved_up(cc, cc_new) == cc_new = cc \/ cell_rank(cc_new) > cell_rank(cc)

\* annotate_cell called with new_cell_category on cell c in the present state.
cell_annotated(c, new_cell_category) ==
    LET cc == cell_category[c]
        after == annotate_cell(Annotations, c, new_cell_category)
    IN /\ cc = "Unknown" => after.cc[c] = new_cell_category
       /\ (cc = "Inside" /\ new_cell_category = "Outside") => after.cc[c] = "Boundary"
       /\ (cc = "Outside" /\ new_cell_category = "Inside") => after.cc[c] = "Boundary"
       /\ cc = "Boundary" => after.cc[c] = "Boundary"
       /\ moved_up(cc, after.cc[c])
       /\ \A c2 \in 1..num_cells : c2 # c => after.cc[c2] = cell_category[c2]
       /\ after.vc = vertex_category /\ after.ec = edge_category /\ after.q = cell_queue
       /\ annotate_cell_modified(Annotations, c, new_cell_category) <=> after.cc[c] # cc

\* C18: cell categories only move up the order Unknown -> {Inside, Outside} -> Boundary:
\* annotate_cell writes the new category over Unknown, turns Inside with Outside into Boundary,
\* never changes a Boundary cell, never sets a cell back to Unknown or from Inside to Outside
\* or back, and returns true exactly when the category of the cell changed; so in every step
\* of annotate_inside_outside every cell keeps its category or moves up.
C18_CellOrder ==
    [][/\ \A c \in 1..num_cells : \A new_cell_category \in {"Inside", "Outside", "Boundary"} :
              cell_annotated(c, new_cell_category)
       /\ calls' = calls =>
              \A c \in 1..num_cells : moved_up(cell_category[c], cell_category'[c])]_vars

\* Annotation has left cells Inside, Outside and Boundary, each of which annotate_cell was
\* called on.
C18_Witness ==
    /\ pc = "fill"
    /\ \E c \in 1..num_cells : cell_category[c] = "Boundary"
    /\ \E c \in 1..num_cells : cell_category[c] = "Inside"
    /\ \E c \in 1..num_cells : cell_category[c] = "Outside"

\* annotate_inside_outside is at work and takes a step.
annotating == pc \in {"edges", "propagate", "fill"} /\ calls' = calls

\* C19: during annotation a vertex or a half-edge is given at most one category:
\* annotate_vertex and annotate_edge never write a category over a different one, so the tail
\* vertex of an infinite edge marked OnContour is never marked Inside or Outside later, and
\* a debug build never ends at their assertions on a valid diagram.
C19_AssignedOnce ==
    [][annotating =>
           /\ \A v \in 1..num_vertices :
                  vertex_category[v] # "Unknown" => vertex_category'[v] = vertex_category[v]
           /\ \A e \in 1..num_edges :
                  edge_category[e] # "Unknown" => edge_category'[e] = edge_category[e]]_vars

\* The vertex lies on a line of the contour.
on_contour(v) == \E l \in 1..Len(vd.lines) : segment_distance(vd.lines[l], vertex_point(v)) = 0

\* C20: when the first loop over the half-edges is done, every half-edge that runs to
\* infinity is PointsOutside, its twin PointsToContour and its tail vertex OnContour, and
\* that vertex lies on the contour.
C20_InfiniteEdge ==
    (pc = "propagate" /\ idx = 1) =>
        \A e \in 1..num_edges :
            vertex1(e) = 0 =>
                /\ edge_category[e] = "PointsOutside"
                /\ edge_category[twin(e)] = "PointsToContour"
                /\ vertex_category[vertex0(e)] = "OnContour"
                /\ on_contour(vertex0(e))

(***************************************************************************)
(* The seed fill taking the cells from the queue in any order: the while   *)
(* loop at lines 564-594 with the cell taken from any position of          *)
(* cell_queue instead of its back.  It is run inside                       *)
(* annotate_inside_outside, and on its own: entered on the Star diagram    *)
(* with the half-edges between point cells Unknown, some of the Inside     *)
(* point cells Unknown and up to MaxSeeds of the others on the queue.      *)
(***************************************************************************)
MaxSeeds == 2

\* The sequences of different elements of S that are no longer than n.
RECURSIVE sequences(_, _)
sequences(S, n) ==
    IF n = 0 THEN {<<>>}
    ELSE {<<>>} \cup UNION {{<<x>> \o q : q \in sequences(S \ {x}, n - 1)} : x \in S}

\* The point cells of the Star diagram that lie inside the contour.
InsidePointCells == {14, 16, 18, 20, 22, 24}

InputsFill ==
    UNION {[vd : {"Star"}, call : {"annotate_inside_outside"}, order : {1}, build : Builds,
            unknown : {U}, cell_queue : sequences(InsidePointCells \ U, MaxSeeds) \ {<<>>}] :
           U \in SUBSET InsidePointCells}

all_unknown ==
    [vc |-> [v \in 1..num_vertices |-> "Unknown"], ec |-> [e \in 1..num_edges |-> "Unknown"],
     cc |-> [c \in 1..num_cells |-> "Unknown"], q |-> <<>>, ok |-> TRUE]

\* The categories and the queue at line 564: those the two loops over the half-edges leave,
\* and for the seed fill on its own those with the cells of input.unknown and the finite
\* half-edges between point cells Unknown and input.cell_queue as the queue.
fill_entry ==
    LET entered(a) ==
            IF "unknown" \in DOMAIN input
            THEN [a EXCEPT
                    !.cc = [c \in 1..num_cells |->
                               IF c \in input.unknown THEN "Unknown" ELSE a.cc[c]],
                    !.ec = [e \in 1..num_edges |->
                               IF /\ contains_point(cell(e))
                                  /\ contains_point(cell(twin(e)))
                                  /\ vertex0(e) # 0
                                  /\ vertex1(e) # 0
                               THEN "Unknown" ELSE a.ec[e]],
                    !.q = input.cell_queue, !.ok = TRUE]
            ELSE a
    IN CHOOSE r \in {entered(a) : a \in {propagate_edges(annotate_edges(
                                                all_unknown, 1, num_edges), 1, num_edges)}} : TRUE

\* The seed fill on its own, before it is entered.
InitSeedFill ==
    /\ input \in InputsFill
    /\ vd = Diagrams[input.vd]
    /\ calls = 1
    /\ other = Idle
    /\ pc = "enter"
    /\ idx = 1
    /\ vertex_category = <<>>
    /\ edge_category = <<>>
    /\ cell_category = <<>>
    /\ cell_queue = <<>>
    /\ vertex_distances = <<>>
    /\ edge_points = <<>>
    /\ trace = <<>>
    /\ polygons = <<>>
    /\ intersections = <<>>

InitFill == (Init /\ input.call = "annotate_inside_outside") \/ InitSeedFill

\* The seed fill on its own is entered at line 564.
EnterSeedFill ==
    /\ pc = "enter"
    /\ pc' = "fill"
    /\ Store(fill_entry)
    /\ UNCHANGED <<invocation, idx, vertex_distances, edge_points, trace, polygons>>

SeedFillAny ==
    /\ pc = "fill"
    /\ cell_queue # <<>>
    /\ \E k \in 1..Len(cell_queue) :
           LET Filled(a) == IF Aborts(a) THEN Abort ELSE Store(a) /\ UNCHANGED <<pc, idx>>
           IN Filled(fill_step_at(Annotations, k))
    /\ UNCHANGED <<invocation, vertex_distances, edge_points, trace, polygons>>

NextFill == AnnotateEdge \/ Propagate \/ EnterSeedFill \/ SeedFillAny \/ AnnotateReturn

SpecFill == InitFill /\ [][NextFill]_vars

\* What the seed fill leaves when it takes the cells from the back of the queue.
filled == fill_cells(fill_entry)

\* C21: the categories the seed fill leaves do not depend on the order in which the cells
\* are taken from the queue: in whatever order the queue is drained, the vertex, edge and
\* cell categories at the end are those of the draining from the back.
C21_FillOrder ==
    (pc = "fill" /\ cell_queue = <<>>) =>
        \A a \in {filled} :
            /\ vertex_category = a.vc
            /\ edge_category = a.ec
            /\ cell_category = a.cc

\* The seed fill has taken the cell at the front of the queue before the cells behind it,
\* has marked half-edges and cells that were Unknown, and has cells left to take.
C21_Witness ==
    /\ pc = "fill"
    /\ Len(cell_queue) >= 2
    /\ \E a \in {fill_entry} :
           /\ cell_queue[1] # a.q[1]
           /\ \E c \in 1..num_cells : cell_category[c] # "Unknown" /\ a.cc[c] = "Unknown"
           /\ \E e \in 1..num_edges : edge_category[e] # "Unknown" /\ a.ec[e] = "Unknown"

\* The while loop at lines 564-594 is a sequential loop: its next iteration is always taken.
FairFill == SpecFill /\ WF_vars(SeedFillAny \/ AnnotateReturn)

\* The half-edges that leave Unknown in the step.
annotated_edges ==
    {e \in 1..num_edges : edge_category[e] = "Unknown" /\ edge_category'[e] # "Unknown"}

\* An iteration of the seed fill.
filling == pc = "fill" /\ cell_queue # <<>> /\ pc' = "fill"

\* C22: the seed fill terminates on every diagram: an iteration pushes a cell only for a
\* half-edge and its twin that it has just taken out of Unknown, no half-edge goes back to
\* Unknown, so that the pushes are bounded by the number of half-edges, and the loop is
\* left with the queue empty.
C22_FillTerminates ==
    /\ [][filling =>
              /\ 2 * (Len(cell_queue') - (Len(cell_queue) - 1)) <= Cardinality(annotated_edges)
              /\ \A e \in 1..num_edges :
                     edge_category[e] # "Unknown" => edge_category'[e] # "Unknown"]_vars
    /\ [][pc = "fill" /\ pc' # "fill" /\ pc' # "aborted" => cell_queue = <<>>]_vars
    /\ (pc = "fill") ~> (pc # "fill")

\* The seed fill on its own has pushed the cells that were Unknown, has emptied the queue
\* and has been left.
C22_Witness ==
    /\ pc = "returned"
    /\ "unknown" \in DOMAIN input
    /\ Cardinality(input.unknown) >= 2
    /\ cell_queue = <<>>
    /\ \A c \in 1..num_cells : cell_category[c] # "Unknown"

\* The half-edges without a head: the outgoing infinite half-edges.
outgoing_infinite == {e \in 1..num_edges : vertex1(e) = 0}

\* The half-edge is marked visited and holds no intersection.
visited_only(p) == ~edge_offset_has_intersection(p) /\ p.y # 0

linear_edges ==
    {e \in 1..num_edges :
        /\ vertex0(e) # 0
        /\ vertex1(e) # 0
        /\ is_secondary(e) \/ (contains_segment(cell(e)) /\ contains_segment(cell(twin(e))))
        /\ adjusted_distance(vertex0(e)) < adjusted_distance(vertex1(e))
        /\ Abs(input.offset_distance) < adjusted_distance(vertex1(e))}

\* The point at distance D on a half-edge with linear distance, lines 755-756 and 762.
linear_point(e) ==
    LET dmin == adjusted_distance(vertex0(e))
        dmax == adjusted_distance(vertex1(e))
        n == Abs(input.offset_distance) - dmin
        t == IF n <= 0 THEN <<0, 1>> ELSE IF n >= dmax - dmin THEN <<1, 1>> ELSE <<n, dmax - dmin>>
        a == vertex_point(vertex0(e))
        b == vertex_point(vertex1(e))
    IN [nan |-> FALSE, x |-> a[1] + div((b[1] - a[1]) * t[1], t[2]),
        y |-> a[2] + div((b[2] - a[2]) * t[1], t[2])]

\* C24: when the solver has finished, a finite bisector of two segments or a finite
\* secondary edge with D < dmax and, for a bisector, D >= dmin holds the interpolation at
\* t = clamp((D - dmin) / (dmax - dmin), 0, 1) between its ends on the half-edge directed
\* from the vertex of smaller to the vertex of larger distance and the visited mark on
\* the opposite half-edge; a bisector with D < dmin holds the visited mark on both.
C24_LinearEdges ==
    solved =>
        \A e \in linear_edges :
            IF is_secondary(e) \/ Abs(input.offset_distance) >= adjusted_distance(vertex0(e))
            THEN /\ edge_points[e] = linear_point(e)
                 /\ visited_only(edge_points[twin(e)])
            ELSE /\ visited_only(edge_points[e])
                 /\ visited_only(edge_points[twin(e)])

\* The solver has finished an offset that crosses a bisector strictly between its ends
\* and stays below both ends of another bisector.
C24_Witness ==
    /\ solved
    /\ \E e \in linear_edges :
           /\ ~is_secondary(e)
           /\ Abs(input.offset_distance) > adjusted_distance(vertex0(e))
           /\ edge_points[e] = linear_point(e)
           /\ edge_points[e] # point(vertex_point(vertex0(e)))
    /\ \E e \in linear_edges :
           /\ ~is_secondary(e)
           /\ Abs(input.offset_distance) < adjusted_distance(vertex0(e))
           /\ visited_only(edge_points[e])

\* The finite half-edges that hold an intersection while their twin holds one as well: the
\* pairs lines 861-864 have written.
twice_intersected ==
    {e \in 1..num_edges :
        /\ vertex0(e) # 0
        /\ vertex1(e) # 0
        /\ edge_offset_has_intersection(edge_points[e])
        /\ edge_offset_has_intersection(edge_points[twin(e)])}

\* The parameter of the intersection a half-edge holds along the chord from the tail to
\* the head of the half-edge e, as at lines 833-836.
chord_parameter(e, holder) ==
    LET p0 == vertex_point(vertex0(e))
        p1 == vertex_point(vertex1(e))
        q == <<edge_points[holder].x, edge_points[holder].y>>
    IN (p1[1] - p0[1]) * (q[1] - p0[1]) + (p1[2] - p0[2]) * (q[2] - p0[2])

\* C25 as stated: when the solver has finished, of the two intersections of an edge the
\* one with the smaller parameter along the chord from vertex0 to vertex1 of a half-edge is
\* held by that half-edge and the one with the larger parameter by its twin.
C25_SmallerFirst ==
    solved => \A e \in twice_intersected : chord_parameter(e, e) <= chord_parameter(e, twin(e))

\* C25: when the solver has finished, of the two intersections of an edge the one with the
\* larger parameter along the chord from vertex0 to vertex1 of a half-edge is held by
\* that half-edge and the one with the smaller parameter by its twin (lines 862-863).
C25_LargerFirst ==
    solved => \A e \in twice_intersected : chord_parameter(e, e) >= chord_parameter(e, twin(e))

\* The solver has finished an offset that crosses the edge between two point sites twice,
\* at two different points.
C25_Witness ==
    /\ solved
    /\ \E e \in twice_intersected :
           /\ contains_point(cell(e)) /\ contains_point(cell(twin(e)))
           /\ chord_parameter(e, e) > chord_parameter(e, twin(e))

\* The two points the kernel returns for a finite half-edge with a point site, lines 819-825.
kernel_points(e) ==
    LET c1 == cell(e)
        c2 == cell(twin(e))
        pt0 == IF contains_point(c1) THEN contour_point(c1) ELSE contour_point(c2)
    IN IF contains_point(c1) # contains_point(c2)
       THEN line_point_equal_distance_points(
                IF contains_segment(c1) THEN source_line(c1) ELSE source_line(c2),
                pt0, Abs(input.offset_distance))
       ELSE point_point_equal_distance_points(pt0, contour_point(c2),
                                              Abs(input.offset_distance))

\* The larger of the squared distances of a point to the two ends of a half-edge, lines
\* 854-855.
end_distance(e, q) ==
    LET p0 == vertex_point(vertex0(e))
        p1 == vertex_point(vertex1(e))
    IN Max((q[1] - p0[1]) * (q[1] - p0[1]) + (q[2] - p0[2]) * (q[2] - p0[2]),
           (q[1] - p1[1]) * (q[1] - p1[1]) + (q[2] - p1[2]) * (q[2] - p1[2]))

\* The finite half-edges with a point site and curved distance, directed from the vertex
\* nearer than D to the vertex farther than D, for which the kernel returns two points.
single_edges ==
    {e \in 1..num_edges :
        /\ vertex0(e) # 0
        /\ vertex1(e) # 0
        /\ ~is_secondary(e)
        /\ contains_point(cell(e)) \/ contains_point(cell(twin(e)))
        /\ adjusted_distance(vertex0(e)) < Abs(input.offset_distance)
        /\ Abs(input.offset_distance) < adjusted_distance(vertex1(e))
        /\ kernel_points(e).count = 2}

\* C26: when the solver has finished, a half-edge that runs from an end nearer than D to
\* an end farther than D and for which the kernel returns two points holds the point whose
\* larger distance to the two ends is the largest, and its twin holds the visited mark.
C26_Furthest ==
    solved =>
        \A e \in single_edges :
            /\ \E q \in {kernel_points(e).pts[1], kernel_points(e).pts[2]} :
                   /\ edge_points[e] = point(q)
                   /\ end_distance(e, q) >= end_distance(e, kernel_points(e).pts[1])
                   /\ end_distance(e, q) >= end_distance(e, kernel_points(e).pts[2])
            /\ visited_only(edge_points[twin(e)])

\* The half-edge the solver is about to process is a finite edge of a point site that
\* passed the tests of lines 663, 671 and 687.
curved_candidate ==
    /\ pc = "intersections"
    /\ idx <= num_edges
    /\ ~edge_already_classified(edge_points[edge_at(idx)])
    /\ vertex0(edge_at(idx)) # 0
    /\ vertex1(edge_at(idx)) # 0
    /\ adjusted_distance(vertex0(edge_at(idx))) # adjusted_distance(vertex1(edge_at(idx)))
    /\ Abs(input.offset_distance) <
           Max(adjusted_distance(vertex0(edge_at(idx))),
               adjusted_distance(vertex1(edge_at(idx))))
    /\ ~is_secondary(edge_at(idx))
    /\ contains_point(cell(edge_at(idx))) \/ contains_point(cell(twin(edge_at(idx))))

\* The smaller of the distances of the two ends of a half-edge.
end_dmin(e) ==
    IF adjusted_distance(vertex0(e)) < adjusted_distance(vertex1(e))
    THEN adjusted_distance(vertex0(e))
    ELSE adjusted_distance(vertex1(e))

\* The foot point of the point site falls inside the edge (lines 794 and 806).
foot_inside(e) == dmin_new(e, end_dmin(e)) # <<end_dmin(e), 1>>

\* The square of the smallest site distance along the edge, as a fraction.
minimum2(e) ==
    IF foot_inside(e) /\ dmin_new(e, end_dmin(e))[1] <
                             end_dmin(e) * end_dmin(e) * dmin_new(e, end_dmin(e))[2]
    THEN dmin_new(e, end_dmin(e))
    ELSE <<end_dmin(e) * end_dmin(e), 1>>

\* C27: for a finite non-secondary edge of a point site the kernel is called exactly when
\* the offset distance is at least the smallest site distance along the edge, both
\* squared, and two intersections are considered only when the offset distance lies
\* between the minimum at the foot point and the smaller distance of the two ends; below
\* the minimum both half-edges end up visited without an intersection.
C27_LikeWithLike ==
    /\ curved_candidate =>
           LET e == edge_at(idx)
               D2 == input.offset_distance * input.offset_distance
               dn == dmin_new(e, end_dmin(e))
           IN /\ has_intersection(D2, end_dmin(e), dn) <=>
                     D2 * minimum2(e)[2] >= minimum2(e)[1]
              /\ possibly_two_points(D2, end_dmin(e), dn) =>
                     /\ foot_inside(e)
                     /\ D2 * dn[2] >= dn[1]
                     /\ D2 < end_dmin(e) * end_dmin(e)
    /\ solved =>
           \A e \in 1..num_edges :
               (/\ vertex0(e) # 0
                /\ vertex1(e) # 0
                /\ ~is_secondary(e)
                /\ contains_point(cell(e)) \/ contains_point(cell(twin(e)))
                /\ adjusted_distance(vertex0(e)) # adjusted_distance(vertex1(e))
                /\ input.offset_distance * input.offset_distance * minimum2(e)[2] <
                       minimum2(e)[1])
               => visited_only(edge_points[e]) /\ visited_only(edge_points[twin(e)])

\* A step of the solver or of the tracer writes only what is its own.
writes_own ==
    pc \in {"intersections", "seeds", "walk"} =>
        /\ UNCHANGED <<vd, vertex_category, edge_category, cell_category, vertex_distances>>
        /\ pc = "intersections" => UNCHANGED <<trace, polygons>>
        /\ pc # "intersections" =>
               \A e \in 1..num_edges :
                   edge_points'[e] # edge_points[e] =>
                       /\ edge_offset_has_intersection(edge_points[e])
                       /\ edge_points'[e] = [edge_points[e] EXCEPT !.nan = TRUE, !.x = 0]

\* C28: the solver and the tracer leave the categories, the vertex distances and the
\* diagram as they are; the solver writes only its array of results, and the tracer writes
\* only consumed marks into that array, the polygon it traces and the list of polygons.
C28_ReadOnly == [][writes_own]_vars

\* The tracer has returned polygons after consuming intersections the solver had stored
\* from the vertex distances of an annotated diagram.
C28_Witness ==
    /\ pc = "returned"
    /\ input.call = "offset"
    /\ polygons # <<>>
    /\ \E e \in 1..num_edges : edge_points[e].nan /\ edge_points[e].y \notin {0, 1}
    /\ \E v \in 1..num_vertices : vertex_distances[v] # 0
    /\ \E c \in 1..num_cells : cell_category[c] = "Boundary"

\* Lines 669-676: the distance the solver gives an end of a half-edge, DBL_MAX for an
\* absent vertex, negated for an inward offset.
solver_distance(v) ==
    IF input.offset_distance > 0
    THEN (IF v = 0 THEN DBL_MAX ELSE vertex_distances[v])
    ELSE (IF v = 0 THEN - DBL_MAX ELSE - vertex_distances[v])

\* The half-edge the solver is about to process passes the tests of lines 663, 671 and 687.
passes_skip_tests ==
    /\ pc = "intersections"
    /\ idx <= num_edges
    /\ ~edge_already_classified(edge_points[edge_at(idx)])
    /\ solver_distance(vertex0(edge_at(idx))) # solver_distance(vertex1(edge_at(idx)))
    /\ ~edge_within_offset(Abs(input.offset_distance),
                           Max(solver_distance(vertex0(edge_at(idx))),
                               solver_distance(vertex1(edge_at(idx)))))

\* C29: a half-edge that passes the skip tests of the solver has its tail vertex, whatever
\* the sign of the offset and whichever half-edge of an infinite pair is stored first.
C29_TailPresent == passes_skip_tests => vertex0(edge_at(idx)) # 0

\* Phase A is over and annotate_inside_outside has not finished.
expanding == pc \in {"propagate", "fill"}

\* A step of the expansion or of the seed fill gives a half-edge and its twin one category.
annotates_twins ==
    expanding =>
        \A e \in 1..num_edges :
            edge_category'[e] # edge_category[e] =>
                /\ edge_category[e] = "Unknown"
                /\ edge_category[twin(e)] = "Unknown"
                /\ edge_category'[twin(e)] = edge_category'[e]

\* From the end of phase A to the end of the annotation a half-edge is Unknown exactly when
\* its twin is, and an Unknown half-edge is finite and separates the cells of two point
\* sites.
unknown_pairs ==
    expanding =>
        \A e \in 1..num_edges :
            /\ edge_category[e] = "Unknown" <=> edge_category[twin(e)] = "Unknown"
            /\ edge_category[e] = "Unknown" =>
                   /\ vertex0(e) # 0
                   /\ vertex1(e) # 0
                   /\ contains_point(cell(e))
                   /\ contains_point(cell(twin(e)))

\* C30: from the end of phase A until the annotation finishes a half-edge is Unknown if and
\* only if its twin is, every Unknown half-edge is finite and separates two point cells,
\* and the expansion and the seed fill annotate a half-edge and its twin together with the
\* same category.
C30_UnknownPairs == []unknown_pairs /\ [][annotates_twins]_vars

\* The seed fill has annotated a pair of half-edges that was Unknown when it was entered,
\* another pair is still Unknown and a cell is still in the queue.
C30_Witness ==
    /\ pc = "fill"
    /\ cell_queue # <<>>
    /\ \E e \in 1..num_edges : edge_category[e] = "Unknown"
    /\ \E a \in {fill_entry} :
           \E e \in 1..num_edges :
               /\ a.ec[e] = "Unknown"
               /\ edge_category[e] # "Unknown"
               /\ edge_category[twin(e)] = edge_category[e]
====
